---- MODULE Spec2Model ----
(***************************************************************************)
(* TFetchClient (type-fetch): a fetch wrapper with retry, response cache   *)
(* and content-type aware bodies.  The model follows the richer variant of *)
(* the client (get/post/put/patch/delete/head, per-call cache options,     *)
(* deleteHandling).                                                        *)
(*                                                                         *)
(* Conventions.  A JavaScript value is denoted by the text of its literal: *)
(* "null", "undefined", "0", "false", "''" and so on; HTTP statuses are    *)
(* the numbers' texts ("200").  An optional value is a sequence of length  *)
(* 0 (absent: null or undefined) or 1.  A string that is hashed is a       *)
(* sequence of UTF-16 code units.  Date.now() is the variable now; one     *)
(* synchronous run of code reads one value of it.                          *)
(***************************************************************************)
EXTENDS Integers, Sequences, FiniteSets, TLC

VARIABLES config,   \* this.config, fixed by the constructor
          cache,    \* this.cache: the Map's entries in insertion order
          now,      \* Date.now()
          call,     \* the public calls in progress, one per caller slot
          other     \* a second client instance, while the first one runs:
                    \* <<>> before it is constructed, else <<instance>>

vars == <<config, cache, now, call, other>>

----------------------------------------------------------------------------
(* Bounds of the model *)

MaxTime == 3          \* the clock runs from 1 to MaxTime
MaxRetryCount == 2    \* retry.count ranges over 0..MaxRetryCount
MaxEntriesCfg == 5    \* cache.maxCachedEntries ranges over 0..MaxEntriesCfg

----------------------------------------------------------------------------
(* JavaScript values *)

Null == "null"
Undefined == "undefined"

\* ToBoolean(v) of the values that occur as response data
Truthy(v) == v \notin {"null", "undefined", "0", "false", "''"}

\* a ?? b
Coalesce(opt, default) == IF opt = <<>> THEN default ELSE opt[1]

Min(a, b) == IF a <= b THEN a ELSE b

----------------------------------------------------------------------------
(* TFetchError and the other errors that are thrown *)

\* new TFetchError(message, status)
TFetchError(message, status) ==
    [name |-> "TFetchError", message |-> message, status |-> status]

\* an Error that is not a TFetchError (TypeError, SyntaxError, ...)
PlainError(name, message) ==
    [name |-> name, message |-> message, status |-> Undefined]

\* Result<T> = { data, error }; error null is <<>>, an error e is <<e>>
Result(data, error) == [data |-> data, error |-> error]

----------------------------------------------------------------------------
(* Headers *)

\* String.prototype.toLowerCase on the header names that occur
toLowerCase(name) ==
    CASE name \in {"Content-Type", "content-type"} -> "content-type"
      [] name \in {"Authorization", "authorization"} -> "authorization"
      [] name \in {"X-Custom-Header", "x-custom-header"} -> "x-custom-header"
      [] OTHER -> name

\* new Headers(src).forEach((v, k) => headers.set(k, v)) for one source: a
\* plain object given as the sequence of its own [name, value] pairs
RECURSIVE SetAll(_, _)
SetAll(headers, src) ==
    IF src = <<>> THEN headers
    ELSE LET k == toLowerCase(src[1][1])
             h == [n \in DOMAIN headers \cup {k} |->
                      IF n = k THEN src[1][2] ELSE headers[n]]
         IN  SetAll(h, Tail(src))

\* mergeHeaders keeping the value of the first source that defines a name
RECURSIVE mergeHeadersFirstWins(_)
mergeHeadersFirstWins(sources) ==
    IF sources = <<>> THEN <<>>
    ELSE SetAll(mergeHeadersFirstWins(Tail(sources)), sources[1])

\* mergeHeaders(...sources): a Headers object, here the map from lower-case
\* name to value; later sources override earlier ones
RECURSIVE mergeHeaders(_)
mergeHeaders(sources) ==
    IF sources = <<>> THEN <<>>
    ELSE SetAll(mergeHeaders(SubSeq(sources, 1, Len(sources) - 1)),
                sources[Len(sources)])

\* getHeaders(type): the default Content-Type of a body type, {} otherwise
getHeaders(type) ==
    CASE type = "json" -> << <<"Content-Type", "application/json">> >>
      [] type = "form" -> << <<"Content-Type", "application/x-www-form-urlencoded">> >>
      [] type = "text" -> << <<"Content-Type", "text/plain">> >>
      [] type = "blob" -> << <<"Content-Type", "application/octet-stream">> >>
      [] type = "multipart" -> << <<"Content-Type", "multipart/form-data">> >>
      [] type = "xml" -> << <<"Content-Type", "application/xml">> >>
      [] type = "html" -> << <<"Content-Type", "text/html">> >>
      [] OTHER -> <<>>

----------------------------------------------------------------------------
(* Request bodies.  The data of a ContentWrapper is one of a few JavaScript *)
(* values, named by kind: undefined, null, the object {a: 1}, an object    *)
(* that refers to itself, the number 123, the empty string, a FormData     *)
(* holding ("a", "1"), a Blob and the string "<a/>" (markup).              *)

DataKinds == {"undefined", "null", "object", "circular", "number",
              "emptyString", "FormData", "Blob", "markup"}

ContentTypes == {"json", "form", "text", "blob", "multipart", "xml", "html"}

\* body as passed by the caller: absent, or { type, data } where a missing
\* type is "undefined"
Wrapper(type, data) == [present |-> TRUE, type |-> type, data |-> data]
NoWrapper == [present |-> FALSE, type |-> "undefined", data |-> "undefined"]

\* what a function call does: it returns ret, or throws the error in throws
Returns(v) == [throws |-> <<>>, ret |-> v]
Throws(e) == [throws |-> <<e>>, ret |-> NoWrapper]

\* String(v), a value again: a string is named by what it was made from
String(kind) ==
    CASE kind = "null" -> "emptyString"      \* prepareBody maps null to ""
      [] kind = "emptyString" -> "emptyString"
      [] kind = "number" -> "'123'"
      [] kind = "FormData" -> "'[object FormData]'"
      [] kind = "Blob" -> "'[object Blob]'"
      [] kind \in {"object", "circular"} -> "'[object Object]'"
      [] OTHER -> kind

\* the FormData prepareBody builds from the own entries of an object
FormDataOf(kind) ==
    CASE kind = "object" -> "FormData"            \* ("a", "1")
      [] kind = "circular" -> "FormData(self)"    \* ("self", "[object Object]")
      [] OTHER -> "FormData()"                    \* a Blob has no own entries

\* v.toString() as UTF-16 code units
StringOf(kind) ==
    CASE kind \in {"number", "'123'"} -> <<49, 50, 51>>
      [] kind = "emptyString" -> <<>>
      [] kind = "markup" -> <<60, 97, 47, 62>>
      [] kind \in {"FormData", "FormData(self)", "FormData()", "'[object FormData]'"} ->
           <<91, 111, 98, 106, 101, 99, 116, 32, 70, 111, 114, 109, 68, 97, 116, 97, 93>>
      [] kind \in {"Blob", "'[object Blob]'"} ->
           <<91, 111, 98, 106, 101, 99, 116, 32, 66, 108, 111, 98, 93>>
      [] OTHER -> <<91, 111, 98, 106, 101, 99, 116, 32, 79, 98, 106, 101, 99, 116, 93>>

\* JSON.stringify(v) as UTF-16 code units; <<>> when it throws
JSONstringify(kind) ==
    CASE kind = "circular" -> <<>>
      [] kind = "number" -> << <<49, 50, 51>> >>
      [] kind = "emptyString" -> << <<34, 34>> >>
      [] kind = "markup" -> << <<34, 60, 97, 47, 62, 34>> >>
      [] kind = "null" -> << <<110, 117, 108, 108>> >>
      [] kind = "object" -> << <<123, 34, 97, 34, 58, 49, 125>> >>
      [] OTHER -> << <<123, 125>> >>

\* prepareBody(body)
prepareBody(body) ==
    IF ~body.present \/ body.type = "undefined" \/ body.data = "undefined"
    THEN Throws(TFetchError("Invalid body: type and data are required", "400"))
    ELSE CASE body.type = "form" ->
                IF body.data \in {"null"}
                THEN \* typeof null is "object": Object.entries(null) throws
                     Throws(PlainError("TypeError", "Cannot convert undefined or null to object"))
                ELSE IF body.data \in {"object", "circular", "Blob"}
                THEN Returns(Wrapper("form", FormDataOf(body.data)))
                ELSE Returns(body)
           [] body.type = "multipart" ->
                IF body.data # "FormData"
                THEN Throws(TFetchError("Multipart data must be a FormData instance", "400"))
                ELSE Returns(body)
           [] body.type = "json" ->
                IF body.data = "null"
                THEN Throws(TFetchError("JSON body cannot be null or undefined", "400"))
                ELSE Returns(body)
           [] body.type = "text" ->
                Returns(Wrapper("text", String(body.data)))
           [] body.type = "blob" ->
                IF body.data # "Blob"
                THEN IF JSONstringify(body.data) = <<>>
                     THEN Throws(TFetchError("Unable to convert data to Blob", "400"))
                     ELSE Returns(Wrapper("blob", "Blob"))
                ELSE Returns(body)
           [] OTHER ->
                Throws(TFetchError("Unsupported content type", "400"))

\* what fetch is given as body: nothing, a string, a FormData or a Blob;
\* str is its toString(), entries its FormData entries joined as "k:v|k:v"
NoBody == [kind |-> "undefined", str |-> <<>>, entries |-> ""]
Serialized(kind, str, entries) == [kind |-> kind, str |-> str, entries |-> entries]

\* a value handed to fetch as it is
AsValue(kind) ==
    CASE kind = "FormData" -> Serialized("FormData", StringOf(kind), "a:1")
      [] kind = "FormData(self)" ->
           Serialized("FormData", StringOf(kind), "self:[object Object]")
      [] kind = "FormData()" -> Serialized("FormData", StringOf(kind), "")
      [] kind = "Blob" -> Serialized("Blob", StringOf(kind), "")
      [] kind = "number" -> Serialized("number", StringOf(kind), "")
      [] kind \in {"object", "circular"} -> Serialized("object", StringOf(kind), "")
      [] OTHER -> Serialized("string", StringOf(kind), "")

\* serializeBody returning the empty string for data null or undefined
serializeBodyEmptyString(body) ==
    IF body.data \in {"null", "undefined"}
    THEN [throws |-> <<>>, ret |-> Serialized("string", <<>>, "")]
    ELSE CASE body.type = "json" ->
                IF JSONstringify(body.data) = <<>>
                THEN [throws |-> <<TFetchError("Failed to serialize JSON data", "400")>>,
                      ret |-> NoBody]
                ELSE [throws |-> <<>>,
                      ret |-> Serialized("string", JSONstringify(body.data)[1], "")]
           [] body.type \in {"form", "multipart"} ->
                [throws |-> <<>>, ret |-> AsValue(body.data)]
           [] body.type = "text" ->
                [throws |-> <<>>, ret |-> AsValue(String(body.data))]
           [] body.type = "blob" ->
                [throws |-> <<>>, ret |-> AsValue(body.data)]
           [] OTHER ->
                [throws |-> <<TFetchError("Cannot serialize content type", "400")>>,
                 ret |-> NoBody]

\* serializeBody(body): ret is the serialized body
serializeBody(body) ==
    IF body.data \in {"null", "undefined"} THEN [throws |-> <<>>, ret |-> NoBody]
    ELSE CASE body.type = "json" ->
                IF JSONstringify(body.data) = <<>>
                THEN [throws |-> <<TFetchError("Failed to serialize JSON data", "400")>>,
                      ret |-> NoBody]
                ELSE [throws |-> <<>>,
                      ret |-> Serialized("string", JSONstringify(body.data)[1], "")]
           [] body.type \in {"form", "multipart"} ->
                [throws |-> <<>>, ret |-> AsValue(body.data)]
           [] body.type = "text" ->
                [throws |-> <<>>, ret |-> AsValue(String(body.data))]
           [] body.type = "blob" ->
                [throws |-> <<>>, ret |-> AsValue(body.data)]
           [] OTHER ->
                [throws |-> <<TFetchError("Cannot serialize content type", "400")>>,
                 ret |-> NoBody]

----------------------------------------------------------------------------
(* The cache key *)

\* a 32-bit integer as the two 16-bit halves of its two's complement
Int32(hi, lo) == [hi |-> hi, lo |-> lo]

\* one round of the loop as hash = (hash << 5) + hash + char
HashStep33(hash, char) ==
    LET lo == hash.lo * 33 + char
        hi == hash.hi * 33 + (lo \div 65536)
    IN  Int32(hi % 65536, lo % 65536)

\* one round of hashCode's loop: hash = (hash << 5) - hash + char, then
\* hash & hash; the low 32 bits of 31 * hash + char
HashStep(hash, char) ==
    LET lo == hash.lo * 31 + char
        hi == hash.hi * 31 + (lo \div 65536)
    IN  Int32(hi % 65536, lo % 65536)

RECURSIVE HashLoop(_, _)
HashLoop(hash, str) ==
    IF str = <<>> THEN hash ELSE HashLoop(HashStep(hash, Head(str)), Tail(str))

\* Math.abs of a 32-bit integer, as halves of the (up to 2^31) magnitude
Abs32(h) ==
    IF h.hi < 32768 THEN h
    ELSE IF h.lo = 0 THEN Int32(65536 - h.hi, 0)
    ELSE Int32(65535 - h.hi, 65536 - h.lo)

\* the decimal text of hi * 65536 + lo
Pad4(r) ==
    IF r < 10 THEN "000" \o ToString(r)
    ELSE IF r < 100 THEN "00" \o ToString(r)
    ELSE IF r < 1000 THEN "0" \o ToString(r)
    ELSE ToString(r)

Decimal(h) ==
    LET low == h.hi * 5536 + h.lo
        q == h.hi * 6 + (low \div 10000)
        r == low % 10000
    IN  IF q = 0 THEN ToString(r) ELSE ToString(q) \o Pad4(r)

\* hashCode(str), as the template literal prints it
hashCode(str) == Decimal(Abs32(HashLoop(Int32(0, 0), str)))

\* String.prototype.toUpperCase on the method names
toUpperCase(method) ==
    CASE method \in {"get", "GET"} -> "GET"
      [] method \in {"post", "POST"} -> "POST"
      [] method \in {"put", "PUT"} -> "PUT"
      [] method \in {"patch", "PATCH"} -> "PATCH"
      [] method \in {"delete", "DELETE"} -> "DELETE"
      [] method \in {"head", "HEAD"} -> "HEAD"
      [] OTHER -> method

\* a headers argument: a Headers instance (class "Headers", no own
\* enumerable properties) or a plain object with its own entries in order
HeadersObject(map) == [class |-> "Headers", map |-> map, own |-> <<>>]
PlainObject(own) == [class |-> "Object", map |-> <<>>, own |-> own]

\* Object.entries(headers)
ObjectEntries(headers) == headers.own

\* a.localeCompare(b) < 0 on the header names that pass the filter
NameRank(name) ==
    CASE name = "authorization" -> 1
      [] name = "Authorization" -> 2
      [] name = "content-type" -> 3
      [] name = "Content-Type" -> 4
      [] OTHER -> 5

\* entries.filter(authorization or content-type)
RECURSIVE FilterEssential(_)
FilterEssential(entries) ==
    IF entries = <<>> THEN <<>>
    ELSE IF toLowerCase(entries[1][1]) \in {"authorization", "content-type"}
         THEN <<entries[1]>> \o FilterEssential(Tail(entries))
         ELSE FilterEssential(Tail(entries))

\* entries.sort(([a], [b]) => a.localeCompare(b)): a stable insertion sort
RECURSIVE InsertByName(_, _)
InsertByName(e, sorted) ==
    IF sorted = <<>> THEN <<e>>
    ELSE IF NameRank(e[1]) < NameRank(sorted[1][1])
         THEN <<e>> \o sorted
         ELSE <<sorted[1]>> \o InsertByName(e, Tail(sorted))

RECURSIVE SortByName(_)
SortByName(entries) ==
    IF entries = <<>> THEN <<>>
    ELSE InsertByName(entries[Len(entries)],
                      SortByName(SubSeq(entries, 1, Len(entries) - 1)))

\* entries.map(([key, value]) => `${key}:${value}`).join("|")
RECURSIVE JoinEntries(_)
JoinEntries(entries) ==
    IF entries = <<>> THEN ""
    ELSE IF Len(entries) = 1 THEN entries[1][1] \o ":" \o entries[1][2]
    ELSE entries[1][1] \o ":" \o entries[1][2] \o "|" \o JoinEntries(Tail(entries))

\* ToBoolean(body) of a serialized body: undefined, "" and 0 are falsy
BodyTruthy(body) ==
    /\ body.kind # "undefined"
    /\ ~(body.kind = "string" /\ body.str = <<>>)

\* generateCacheKey(url, method, headers, body)
generateCacheKey(url, method, headers, body) ==
    LET normalizedUrl == url
        methodPart == toUpperCase(method)
        essentialHeaders ==
            JoinEntries(SortByName(FilterEssential(ObjectEntries(headers))))
        bodyPart ==
            IF BodyTruthy(body)
            THEN IF body.kind = "FormData" THEN body.entries
                 ELSE hashCode(body.str)
            ELSE ""
    IN  methodPart \o "|" \o normalizedUrl \o "|" \o essentialHeaders \o "|" \o bodyPart

----------------------------------------------------------------------------
(* The cache store: this.cache, a Map from key to CacheEntry.  The Map is   *)
(* the sequence of its entries in insertion order: set() on a key that is  *)
(* present keeps the key's place, and Array.prototype.sort is stable.      *)

CacheEntry(key, data, timestamp, expiresAt) ==
    [key |-> key, data |-> data, timestamp |-> timestamp, expiresAt |-> expiresAt]

Keys(m) == {m[i].key : i \in DOMAIN m}

\* Map.get answering with the oldest entry, whatever its key
MapGetOldest(m, key) == IF m = <<>> THEN <<>> ELSE <<m[1]>>

\* this.cache.get(key): <<>> (undefined) or <<entry>>
MapGet(m, key) ==
    IF key \in Keys(m)
    THEN <<m[CHOOSE i \in DOMAIN m : m[i].key = key]>>
    ELSE <<>>

\* this.cache.delete(key)
RECURSIVE MapDelete(_, _)
MapDelete(m, key) ==
    IF m = <<>> THEN <<>>
    ELSE IF m[1].key = key THEN MapDelete(Tail(m), key)
    ELSE <<m[1]>> \o MapDelete(Tail(m), key)

\* a store that adds the entry without replacing the one under its key
MapSetAppends(m, entry) == Append(m, entry)

\* this.cache.set(key, entry)
MapSet(m, entry) ==
    IF entry.key \in Keys(m)
    THEN [i \in DOMAIN m |-> IF m[i].key = entry.key THEN entry ELSE m[i]]
    ELSE Append(m, entry)

\* entries.sort((a, b) => a[1].timestamp - b[1].timestamp)
RECURSIVE InsertByTimestamp(_, _)
InsertByTimestamp(e, sorted) ==
    IF sorted = <<>> THEN <<e>>
    ELSE IF e.timestamp < sorted[1].timestamp
         THEN <<e>> \o sorted
         ELSE <<sorted[1]>> \o InsertByTimestamp(e, Tail(sorted))

RECURSIVE SortByTimestamp(_)
SortByTimestamp(m) ==
    IF m = <<>> THEN <<>>
    ELSE InsertByTimestamp(m[Len(m)], SortByTimestamp(SubSeq(m, 1, Len(m) - 1)))

RECURSIVE DeleteAll(_, _)
DeleteAll(m, entries) ==
    IF entries = <<>> THEN m
    ELSE DeleteAll(MapDelete(m, entries[1].key), Tail(entries))

\* a sweep of a tenth of the store
SweepCountTenth(size) == size \div 10

\* Math.floor(size * 0.25)
SweepCount(size) == size \div 4

\* cleanupCache sweeping only once the store is over the limit
cleanupCacheOverLimit(m) ==
    LET maxEntries == config.cache.maxCachedEntries
    IN  IF Len(m) > maxEntries
        THEN DeleteAll(m, SubSeq(SortByTimestamp(m), 1, SweepCount(Len(m))))
        ELSE m

\* cleanupCache removing the newest entries
cleanupCacheNewest(m) ==
    LET maxEntries == config.cache.maxCachedEntries
        sorted == SortByTimestamp(m)
    IN  IF Len(m) >= maxEntries
        THEN DeleteAll(m, SubSeq(sorted, Len(m) - SweepCount(Len(m)) + 1, Len(m)))
        ELSE m

\* cleanupCache(): the store after the sweep
cleanupCache(m) ==
    LET maxEntries == config.cache.maxCachedEntries
    IN  IF Len(m) >= maxEntries
        THEN DeleteAll(m, SubSeq(SortByTimestamp(m), 1, SweepCount(Len(m))))
        ELSE m

\* saveToCache(key, data, customMaxAge): the store afterwards
saveToCache(m, key, data, customMaxAge) ==
    LET maxAge == Coalesce(customMaxAge, config.cache.maxAge)
    IN  MapSet(cleanupCache(m), CacheEntry(key, data, now, now + maxAge))

\* getFromCache answering absent for an expired entry without deleting it
getFromCacheKeepsExpired(m, key) ==
    LET entry == MapGet(m, key)
    IN  IF entry = <<>> THEN [ret |-> Null, cache |-> m]
        ELSE IF entry[1].expiresAt # 0 /\ now > entry[1].expiresAt
        THEN [ret |-> Null, cache |-> m]
        ELSE [ret |-> entry[1].data, cache |-> m]

\* the store without its expired entries
RECURSIVE PurgeExpired(_)
PurgeExpired(m) ==
    IF m = <<>> THEN <<>>
    ELSE IF m[1].expiresAt # 0 /\ now > m[1].expiresAt THEN PurgeExpired(Tail(m))
    ELSE <<m[1]>> \o PurgeExpired(Tail(m))

\* getFromCache removing every expired entry of the store on each read
getFromCachePurgesExpired(m, key) ==
    LET entry == MapGet(PurgeExpired(m), key)
    IN  IF entry = <<>> THEN [ret |-> Null, cache |-> PurgeExpired(m)]
        ELSE [ret |-> entry[1].data, cache |-> PurgeExpired(m)]

\* getFromCache moving the entry it returns to the newest place of the store
getFromCacheTouches(m, key) ==
    LET entry == MapGet(m, key)
    IN  IF entry = <<>> THEN [ret |-> Null, cache |-> m]
        ELSE IF entry[1].expiresAt # 0 /\ now > entry[1].expiresAt
        THEN [ret |-> Null, cache |-> MapDelete(m, key)]
        ELSE [ret |-> entry[1].data,
              cache |-> MapSet(m, [entry[1] EXCEPT !.timestamp = now])]

\* getFromCache(key): what it returns (ret, null when absent or expired) and
\* the store afterwards
getFromCache(m, key) ==
    LET entry == MapGet(m, key)
    IN  IF entry = <<>> THEN [ret |-> Null, cache |-> m]
        ELSE IF entry[1].expiresAt # 0 /\ now > entry[1].expiresAt
        THEN [ret |-> Null, cache |-> MapDelete(m, key)]
        ELSE [ret |-> entry[1].data, cache |-> m]

----------------------------------------------------------------------------
(* The transport: fetch resolves to a Response or rejects with an error.   *)
(* A Response carries its body: text, or a stream that fails when read.    *)

Response(ok, status, contentLength0, readable, text) ==
    [ok |-> ok, status |-> status, contentLength0 |-> contentLength0,
     readable |-> readable, text |-> text]

\* JSON.parse(text): <<value>>, the value denoted by its literal, or <<>>
\* when the text is not JSON
JSONparse(text) ==
    IF text \in {"null", "0", "false", "{id:1}", "{id:2}"} THEN <<text>> ELSE <<>>

\* what res.json() and res.text() reject with
SyntaxError == PlainError("SyntaxError", "Unexpected token")
StreamError == PlainError("TypeError", "terminated")

----------------------------------------------------------------------------
(* One public call.  pc is where the call stands: "idle" (no call in this   *)
(* slot), "fetching" (await request()), "reading" (await res.text() or     *)
(* res.json()), "retryDelay" (await setTimeout), "done" (the promise is    *)
(* resolved with result) or "rejected" (it is rejected with thrown).       *)
(* fetches .. hit record what the call did, for the properties.            *)

NoCacheOptions == [enabled |-> <<>>, maxAge |-> <<>>]

Idle ==
    [pc |-> "idle", method |-> "", key |-> "", opts |-> NoCacheOptions,
     cacheEnabled |-> FALSE, cacheMaxAge |-> 0,
     attempts |-> 0, lastError |-> <<>>, res |-> <<>>, wakeAt |-> 0,
     result |-> Result(Null, <<>>), thrown |-> <<>>,
     firstError |-> <<>>,  \* the first error the catch block caught
     url |-> "",           \* the url argument
     perCall |-> <<>>,     \* options.headers
     wrapper |-> NoWrapper, \* the body argument
     headers |-> {},       \* the headers given to fetch, as [name, value] pairs
     body |-> NoBody,      \* the body given to fetch
     fetches |-> 0,        \* transport calls made
     onRetryCalls |-> 0,   \* invocations of retry.onRetry
     delays |-> 0,         \* retry delays begun
     failures |-> 0,       \* transport calls that failed
     bodyFailures |-> 0,   \* failed reads of a response body that were caught
     bodyRetries |-> 0,    \* retries begun after a failed body read
     saved |-> FALSE,      \* the call wrote the store
     swept |-> 0,          \* entries the sweep before that write removed
     evicted |-> {},       \* those entries
     expired |-> FALSE,    \* the call's lookup removed an expired entry
     hit |-> FALSE]        \* the call was served from the store

\* a step of a call: the call afterwards and the store afterwards
Step(k, m) == [call |-> k, cache |-> m]

\* the entries of the store m that the store after lacks
Evicted(m, after) == {m[i] : i \in {j \in DOMAIN m : m[j].key \notin Keys(after)}}

\* the public method saving every result of a call with caching enabled
FinishSavesEveryResult(k, m, result) ==
    LET save == k.cacheEnabled
    IN  Step([k EXCEPT !.pc = "done", !.result = result, !.saved = save,
                       !.swept = IF save THEN Len(m) - Len(cleanupCache(m)) ELSE 0,
                       !.evicted = IF save THEN Evicted(m, cleanupCache(m)) ELSE {}],
             IF save THEN saveToCache(m, k.key, result.data, <<k.cacheMaxAge>>)
             ELSE m)

\* the public method after `await this.handleRequest(...)`
Finish(k, m, result) ==
    LET save == k.cacheEnabled /\ Truthy(result.data)
    IN  Step([k EXCEPT !.pc = "done", !.result = result, !.saved = save,
                       !.swept = IF save THEN Len(m) - Len(cleanupCache(m)) ELSE 0,
                       !.evicted = IF save THEN Evicted(m, cleanupCache(m)) ELSE {}],
             IF save THEN saveToCache(m, k.key, result.data, <<k.cacheMaxAge>>)
             ELSE m)

\* the loop condition as attempts < maxRetries
InBudgetStrict(k) == k.attempts < config.retry.count

\* the loop condition, attempts <= maxRetries
InBudget(k) == k.attempts <= config.retry.count

\* the catch block's condition as attempts++ <= maxRetries
RetryLeftInclusive(k) == k.attempts <= config.retry.count

\* the catch block's condition, attempts++ < maxRetries, on the old attempts
RetryLeft(k) == k.attempts < config.retry.count

\* handleRequest at `while (attempts <= maxRetries)`
LoopHead(k, m) ==
    IF InBudget(k)
    THEN Step([k EXCEPT !.pc = "fetching", !.fetches = @ + 1], m)
    ELSE Finish(k, m, Result(Null, <<TFetchError("Max retries exceeded", Undefined)>>))

\* the catch block waiting longer before each further retry
CatchBacksOff(k, m, error, fromBody) ==
    LET k1 == [k EXCEPT !.lastError = <<error>>,
                        !.firstError = IF @ = <<>> THEN <<error>> ELSE @,
                        !.attempts = @ + 1,
                        !.failures = IF fromBody THEN @ ELSE @ + 1,
                        !.bodyFailures = IF fromBody THEN @ + 1 ELSE @]
    IN  IF RetryLeft(k)
        THEN IF config.retry.onRetry = "throws"
             THEN Step([k1 EXCEPT !.pc = "rejected",
                                  !.onRetryCalls = @ + 1,
                                  !.thrown = <<PlainError("Error", "onRetry failed")>>],
                       m)
             ELSE Step([k1 EXCEPT !.pc = "retryDelay",
                                  !.wakeAt = now + config.retry.delay * (k.attempts + 1),
                                  !.onRetryCalls =
                                      IF config.retry.onRetry = "undefined" THEN @ ELSE @ + 1,
                                  !.delays = @ + 1,
                                  !.bodyRetries = IF fromBody THEN @ + 1 ELSE @],
                       m)
        ELSE Finish(k1, m,
                    Result(Null,
                           <<TFetchError(IF error.message # "" THEN error.message
                                         ELSE "Request failed after max retries",
                                         IF error.name = "TFetchError" THEN error.status
                                         ELSE Undefined)>>))

\* the catch block reporting the first error it caught, not the last
CatchReportsFirst(k, m, error, fromBody) ==
    LET k1 == [k EXCEPT !.lastError = <<error>>,
                        !.firstError = IF @ = <<>> THEN <<error>> ELSE @,
                        !.attempts = @ + 1,
                        !.failures = IF fromBody THEN @ ELSE @ + 1,
                        !.bodyFailures = IF fromBody THEN @ + 1 ELSE @]
        first == k1.firstError[1]
    IN  IF RetryLeft(k)
        THEN IF config.retry.onRetry = "throws"
             THEN Step([k1 EXCEPT !.pc = "rejected",
                                  !.onRetryCalls = @ + 1,
                                  !.thrown = <<PlainError("Error", "onRetry failed")>>],
                       m)
             ELSE Step([k1 EXCEPT !.pc = "retryDelay",
                                  !.wakeAt = now + config.retry.delay,
                                  !.onRetryCalls =
                                      IF config.retry.onRetry = "undefined" THEN @ ELSE @ + 1,
                                  !.delays = @ + 1,
                                  !.bodyRetries = IF fromBody THEN @ + 1 ELSE @],
                       m)
        ELSE Finish(k1, m,
                    Result(Null,
                           <<TFetchError(IF first.message # "" THEN first.message
                                         ELSE "Request failed after max retries",
                                         IF first.name = "TFetchError" THEN first.status
                                         ELSE Undefined)>>))

\* handleRequest's catch block, entered with error; fromBody tells a failed
\* body read from a failed transport call
Catch(k, m, error, fromBody) ==
    LET k1 == [k EXCEPT !.lastError = <<error>>,
                        !.firstError = IF @ = <<>> THEN <<error>> ELSE @,
                        !.attempts = @ + 1,
                        !.failures = IF fromBody THEN @ ELSE @ + 1,
                        !.bodyFailures = IF fromBody THEN @ + 1 ELSE @]
    IN  IF RetryLeft(k)
        THEN IF config.retry.onRetry = "throws"
             THEN Step([k1 EXCEPT !.pc = "rejected",
                                  !.onRetryCalls = @ + 1,
                                  !.thrown = <<PlainError("Error", "onRetry failed")>>],
                       m)
             ELSE Step([k1 EXCEPT !.pc = "retryDelay",
                                  !.wakeAt = now + config.retry.delay,
                                  !.onRetryCalls =
                                      IF config.retry.onRetry = "undefined" THEN @ ELSE @ + 1,
                                  !.delays = @ + 1,
                                  !.bodyRetries = IF fromBody THEN @ + 1 ELSE @],
                       m)
        ELSE Finish(k1, m,
                    Result(Null,
                           <<TFetchError(IF error.message # "" THEN error.message
                                         ELSE "Request failed after max retries",
                                         IF error.name = "TFetchError" THEN error.status
                                         ELSE Undefined)>>))

\* the DELETE branch applies: method === "DELETE" and Content-Length is "0"
DeleteBranch(k, res) == k.method = "DELETE" /\ res.contentLength0

\* handleRequest without the DELETE branch: every ok response is decoded
OnResponseDecodesAll(k, m, res) ==
    Step([k EXCEPT !.res = <<res>>, !.pc = "reading"], m)

\* handleRequest after `await request()` resolved with res
OnResponse(k, m, res) ==
    LET k1 == [k EXCEPT !.res = <<res>>]
    IN  IF ~res.ok THEN Step([k1 EXCEPT !.pc = "reading"], m)
        ELSE IF DeleteBranch(k, res) /\ config.deleteHandling = "empty"
        THEN Finish(k1, m, Result(Null, <<>>))
        ELSE IF DeleteBranch(k, res) /\ config.deleteHandling = "status"
        THEN Finish(k1, m, Result(res.status, <<>>))
        ELSE Step([k1 EXCEPT !.pc = "reading"], m)

\* handleRequest returning the body text of a non-ok response as data too
OnBodyKeepsText(k, m) ==
    LET res == k.res[1]
        parsed == IF res.readable THEN JSONparse(res.text) ELSE <<>>
    IN  IF ~res.ok
        THEN IF res.readable
             THEN Finish(k, m, Result(res.text, <<TFetchError(res.text, res.status)>>))
             ELSE Catch(k, m, StreamError, TRUE)
        ELSE IF parsed # <<>> THEN Finish(k, m, Result(parsed[1], <<>>))
        ELSE IF DeleteBranch(k, res) /\ config.deleteHandling = "json"
        THEN Finish(k, m, Result(Null, <<>>))
        ELSE Catch(k, m, IF res.readable THEN SyntaxError ELSE StreamError, TRUE)

\* handleRequest throwing the error of a non-ok response inside the try block
OnBodyThrowsHttpError(k, m) ==
    LET res == k.res[1]
        parsed == IF res.readable THEN JSONparse(res.text) ELSE <<>>
    IN  IF ~res.ok
        THEN IF res.readable
             THEN Catch(k, m, TFetchError(res.text, res.status), TRUE)
             ELSE Catch(k, m, StreamError, TRUE)
        ELSE IF parsed # <<>> THEN Finish(k, m, Result(parsed[1], <<>>))
        ELSE IF DeleteBranch(k, res) /\ config.deleteHandling = "json"
        THEN Finish(k, m, Result(Null, <<>>))
        ELSE Catch(k, m, IF res.readable THEN SyntaxError ELSE StreamError, TRUE)

\* handleRequest after `await res.text()` or `await res.json()` settled
OnBody(k, m) ==
    LET res == k.res[1]
        parsed == IF res.readable THEN JSONparse(res.text) ELSE <<>>
    IN  IF ~res.ok
        THEN IF res.readable
             THEN Finish(k, m, Result(Null, <<TFetchError(res.text, res.status)>>))
             ELSE Catch(k, m, StreamError, TRUE)
        ELSE IF parsed # <<>> THEN Finish(k, m, Result(parsed[1], <<>>))
        ELSE IF DeleteBranch(k, res) /\ config.deleteHandling = "json"
        THEN Finish(k, m, Result(Null, <<>>))
        ELSE Catch(k, m, IF res.readable THEN SyntaxError ELSE StreamError, TRUE)

\* the shared part taking the cache options from the client alone
DispatchClientWide(method, key, options) ==
    LET cacheEnabled == config.cache.enabled
        cacheMaxAge == config.cache.maxAge
        lookup == IF cacheEnabled THEN getFromCache(cache, key)
                  ELSE [ret |-> Null, cache |-> cache]
        k == [Idle EXCEPT !.method = method, !.key = key, !.opts = options.cache,
                          !.cacheEnabled = cacheEnabled, !.cacheMaxAge = cacheMaxAge,
                          !.expired = lookup.cache # cache]
    IN  IF cacheEnabled /\ Truthy(lookup.ret)
        THEN Step([k EXCEPT !.pc = "done", !.hit = TRUE,
                            !.result = Result(lookup.ret, <<>>)],
                  lookup.cache)
        ELSE LoopHead(k, lookup.cache)

\* the public method judging a stored entry by the reading call's maxAge
DispatchReaderMaxAge(method, key, options) ==
    LET cacheEnabled == Coalesce(options.cache.enabled, config.cache.enabled)
        cacheMaxAge == Coalesce(options.cache.maxAge, config.cache.maxAge)
        entry == MapGet(cache, key)
        lookup == IF ~cacheEnabled THEN [ret |-> Null, cache |-> cache]
                  ELSE IF entry # <<>> /\ now > entry[1].timestamp + cacheMaxAge
                  THEN [ret |-> Null, cache |-> MapDelete(cache, key)]
                  ELSE getFromCache(cache, key)
        k == [Idle EXCEPT !.method = method, !.key = key, !.opts = options.cache,
                          !.cacheEnabled = cacheEnabled, !.cacheMaxAge = cacheMaxAge,
                          !.expired = lookup.cache # cache]
    IN  IF cacheEnabled /\ Truthy(lookup.ret)
        THEN Step([k EXCEPT !.pc = "done", !.hit = TRUE,
                            !.result = Result(lookup.ret, <<>>)],
                  lookup.cache)
        ELSE LoopHead(k, lookup.cache)

\* the part get, post, put, patch, delete and head share: the cache options,
\* the lookup, and the first transport call
Dispatch(method, key, options) ==
    LET cacheEnabled == Coalesce(options.cache.enabled, config.cache.enabled)
        cacheMaxAge == Coalesce(options.cache.maxAge, config.cache.maxAge)
        lookup == IF cacheEnabled THEN getFromCache(cache, key)
                  ELSE [ret |-> Null, cache |-> cache]
        k == [Idle EXCEPT !.method = method, !.key = key, !.opts = options.cache,
                          !.cacheEnabled = cacheEnabled, !.cacheMaxAge = cacheMaxAge,
                          !.expired = lookup.cache # cache]
    IN  IF cacheEnabled /\ Truthy(lookup.ret)
        THEN Step([k EXCEPT !.pc = "done", !.hit = TRUE,
                            !.result = Result(lookup.ret, <<>>)],
                  lookup.cache)
        ELSE LoopHead(k, lookup.cache)

\* a call that throws before its first await: the promise is rejected
Reject(method, error) ==
    Step([Idle EXCEPT !.pc = "rejected", !.method = method, !.thrown = <<error>>], cache)

\* new Headers(...).entries() as a set
HeaderPairs(map) == {<<n, map[n]>> : n \in DOMAIN map}

\* a step of a call that records what the call was given and what it gives
\* to fetch
Record(step, url, options, wrapper, mergedHeaders, serialized) ==
    [step EXCEPT !.call.url = url, !.call.perCall = options.headers,
                 !.call.wrapper = wrapper,
                 !.call.headers = HeaderPairs(mergedHeaders),
                 !.call.body = serialized]

\* get, delete and head
WithoutBody(method, url, options) ==
    LET mergedHeaders == mergeHeaders(<<config.headers, options.headers>>)
        ckey == generateCacheKey(url, method, HeadersObject(mergedHeaders), NoBody)
    IN  Record(Dispatch(method, ckey, options),
               url, options, NoWrapper, mergedHeaders, NoBody)

\* post, put and patch handing whatever they are given to the shared part
WithBodyUnprepared(method, url, body, options) ==
    LET mergedHeaders ==
            mergeHeaders(<<config.headers, getHeaders(body.type), options.headers>>)
    IN  Record(Dispatch(method,
                        generateCacheKey(url, method, HeadersObject(mergedHeaders),
                                         NoBody),
                        options),
               url, options, body, mergedHeaders, NoBody)

\* post, put and patch
WithBody(method, url, body, options) ==
    IF ~body.present
    THEN Record(Reject(method, PlainError("TypeError", "Cannot read properties of undefined")),
                url, options, body, <<>>, NoBody)
    ELSE LET mergedHeaders ==
                 mergeHeaders(<<config.headers, getHeaders(body.type), options.headers>>)
             actualBody == prepareBody(body)
             serialized == serializeBody(actualBody.ret)
         IN  IF actualBody.throws # <<>>
             THEN Record(Reject(method, actualBody.throws[1]),
                         url, options, body, <<>>, NoBody)
             ELSE IF serialized.throws # <<>>
             THEN Record(Reject(method, serialized.throws[1]),
                         url, options, body, <<>>, NoBody)
             ELSE Record(Dispatch(method,
                                  generateCacheKey(url, method,
                                                   HeadersObject(mergedHeaders),
                                                   serialized.ret),
                                  options),
                         url, options, body, mergedHeaders, serialized.ret)

----------------------------------------------------------------------------
(* What surrounds the client: E.urls, E.bodies and E.options are what the   *)
(* callers pass, E.responses and E.errors what fetch answers.              *)

Options(headers, enabled, maxAge) ==
    [headers |-> headers, cache |-> [enabled |-> enabled, maxAge |-> maxAge]]

NoOptions == Options(<<>>, <<>>, <<>>)

Environment(urls, bodies, options, responses, errors) ==
    [urls |-> urls, bodies |-> bodies, options |-> options,
     responses |-> responses, errors |-> errors]

\* the configuration the constructor leaves in this.config
Config(deleteHandling, count, delay, onRetry, enabled, maxAge, maxCachedEntries) ==
    [debug |-> FALSE,
     headers |-> <<>>,
     deleteHandling |-> deleteHandling,
     retry |-> [count |-> count, delay |-> delay, onRetry |-> onRetry],
     cache |-> [enabled |-> enabled, maxAge |-> maxAge,
                maxCachedEntries |-> maxCachedEntries]]

----------------------------------------------------------------------------
(* The constructor.  Its argument opts is absent (<<>>) or <<o>>, where    *)
(* every field of o, and every field of o.retry and o.cache, is optional.  *)

DEFAULT_RETRY_COUNT == 0
DEFAULT_RETRY_DELAY == 1000
DEFAULT_MAX_CACHED_ENTRIES == 5000

\* enum Time
Second == 1000
Minute == 60 * Second

\* opts?.name
Field(opts, name) == IF opts = <<>> THEN <<>> ELSE opts[1][name]

\* the constructor keeping a supplied retry or cache object as it is, its
\* missing fields blank (0, FALSE)
constructorShallow(opts) ==
    LET retry == Field(opts, "retry")
        cache_ == Field(opts, "cache")
    IN  [debug |-> Coalesce(Field(opts, "debug"), FALSE),
         headers |-> Coalesce(Field(opts, "headers"), <<>>),
         deleteHandling |-> Coalesce(Field(opts, "deleteHandling"), "empty"),
         retry |-> [count |-> Coalesce(Field(retry, "count"),
                                       IF retry = <<>> THEN DEFAULT_RETRY_COUNT ELSE 0),
                    delay |-> Coalesce(Field(retry, "delay"),
                                       IF retry = <<>> THEN DEFAULT_RETRY_DELAY ELSE 0),
                    onRetry |-> Coalesce(Field(retry, "onRetry"), Undefined)],
         cache |-> [enabled |-> Coalesce(Field(cache_, "enabled"), FALSE),
                    maxAge |-> Coalesce(Field(cache_, "maxAge"),
                                        IF cache_ = <<>> THEN Minute * 5 ELSE 0),
                    maxCachedEntries |->
                        Coalesce(Field(cache_, "maxCachedEntries"),
                                 IF cache_ = <<>> THEN DEFAULT_MAX_CACHED_ENTRIES
                                 ELSE 0)]]

\* new TFetchClient(opts): this.config
constructor(opts) ==
    LET retry == Field(opts, "retry")
        cache_ == Field(opts, "cache")
    IN  [debug |-> Coalesce(Field(opts, "debug"), FALSE),
         headers |-> Coalesce(Field(opts, "headers"), <<>>),
         deleteHandling |-> Coalesce(Field(opts, "deleteHandling"), "empty"),
         retry |-> [count |-> Coalesce(Field(retry, "count"), DEFAULT_RETRY_COUNT),
                    delay |-> Coalesce(Field(retry, "delay"), DEFAULT_RETRY_DELAY),
                    onRetry |-> Coalesce(Field(retry, "onRetry"), Undefined)],
         cache |-> [enabled |-> Coalesce(Field(cache_, "enabled"), FALSE),
                    maxAge |-> Coalesce(Field(cache_, "maxAge"), Minute * 5),
                    maxCachedEntries |->
                        Coalesce(Field(cache_, "maxCachedEntries"),
                                 DEFAULT_MAX_CACHED_ENTRIES)]]

----------------------------------------------------------------------------
(* The actions *)

\* a config in which a call leaves the cache options it resolved
configTakesOverrides(cfg, k) ==
    [cfg EXCEPT !.cache.enabled = k.cacheEnabled, !.cache.maxAge = k.cacheMaxAge]

\* public readonly config: this.config after a step of the call k; no
\* statement of the class assigns to it or to a field of it
readonlyConfig(cfg, k) == cfg

Apply(c, step) ==
    /\ call' = [call EXCEPT ![c] = step.call]
    /\ cache' = step.cache
    /\ config' = readonlyConfig(config, step.call)
    /\ UNCHANGED <<now, other>>

\* the slots in which no call is in progress
IdleSlots == {c \in DOMAIN call : call[c].pc = "idle"}

get(E) ==
    \E c \in IdleSlots, url \in E.urls, options \in E.options :
        Apply(c, WithoutBody("GET", url, options))

post(E) ==
    \E c \in IdleSlots, url \in E.urls, body \in E.bodies, options \in E.options :
        Apply(c, WithBody("POST", url, body, options))

put(E) ==
    \E c \in IdleSlots, url \in E.urls, body \in E.bodies, options \in E.options :
        Apply(c, WithBody("PUT", url, body, options))

patch(E) ==
    \E c \in IdleSlots, url \in E.urls, body \in E.bodies, options \in E.options :
        Apply(c, WithBody("PATCH", url, body, options))

delete(E) ==
    \E c \in IdleSlots, url \in E.urls, options \in E.options :
        Apply(c, WithoutBody("DELETE", url, options))

head(E) ==
    \E c \in IdleSlots, url \in E.urls, options \in E.options :
        Apply(c, WithoutBody("HEAD", url, options))

\* fetch resolves with a Response
FetchResolves(E) ==
    \E c \in DOMAIN call, res \in E.responses :
        /\ call[c].pc = "fetching"
        /\ Apply(c, OnResponse(call[c], cache, res))

\* fetch rejects (or throws)
FetchRejects(E) ==
    \E c \in DOMAIN call, error \in E.errors :
        /\ call[c].pc = "fetching"
        /\ Apply(c, Catch(call[c], cache, error, FALSE))

\* res.text() or res.json() settles
BodySettles ==
    \E c \in DOMAIN call :
        /\ call[c].pc = "reading"
        /\ Apply(c, OnBody(call[c], cache))

\* the retry delay is over
RetryTimer ==
    \E c \in DOMAIN call :
        /\ call[c].pc = "retryDelay"
        /\ now >= call[c].wakeAt
        /\ Apply(c, LoopHead(call[c], cache))

\* the caller has its Result (or its exception): the slot is free again
Collect ==
    \E c \in DOMAIN call :
        /\ call[c].pc \in {"done", "rejected"}
        /\ call' = [call EXCEPT ![c] = Idle]
        /\ UNCHANGED <<config, cache, now, other>>

Tick ==
    /\ now < MaxTime
    /\ now' = now + 1
    /\ UNCHANGED <<config, cache, call, other>>

NextOn(E) ==
    \/ get(E)
    \/ post(E)
    \/ put(E)
    \/ patch(E)
    \/ delete(E)
    \/ head(E)
    \/ FetchResolves(E)
    \/ FetchRejects(E)
    \/ BodySettles
    \/ RetryTimer
    \/ Collect
    \/ Tick

\* the state after construction, for a configuration out of configs
InitOn(configs, slots) ==
    /\ config \in configs
    /\ cache = <<>>
    /\ now = 1
    /\ call = [c \in slots |-> Idle]
    /\ other = <<>>

----------------------------------------------------------------------------
(* Retry: one caller, no caching, every transport outcome *)

Bodies ==
    {NoWrapper, Wrapper("undefined", "object"), Wrapper("json", "undefined"),
     Wrapper("json", "null"), Wrapper("json", "object"), Wrapper("json", "circular"),
     Wrapper("text", "number"), Wrapper("form", "object"), Wrapper("form", "null"),
     Wrapper("multipart", "object"), Wrapper("multipart", "FormData"),
     Wrapper("blob", "Blob"), Wrapper("blob", "circular"), Wrapper("xml", "markup"),
     Wrapper("html", "markup"), Wrapper("bogus", "object")}

Responses ==
    {Response(TRUE, "200", FALSE, TRUE, t) : t \in {"{id:1}", "null", "0", "<html>"}}
    \cup {Response(TRUE, "200", FALSE, FALSE, "")}
    \cup {Response(TRUE, "204", TRUE, TRUE, t) : t \in {"", "{id:1}"}}
    \cup {Response(TRUE, "204", FALSE, TRUE, "")}
    \cup {Response(FALSE, "404", FALSE, TRUE, "Not Found"),
          Response(FALSE, "500", TRUE, TRUE, ""),
          Response(FALSE, "500", FALSE, FALSE, "")}

Errors ==
    {PlainError("TypeError", "fetch failed"), PlainError("Error", ""),
     TFetchError("upstream", "503")}

RetryConfigs ==
    {Config(mode, count, 1, onRetry, FALSE, 2, 0) :
        mode \in {"empty", "status", "json"},
        count \in 0..MaxRetryCount,
        onRetry \in {"undefined", "returns", "throws"}}

RetryEnv == Environment({"/a"}, Bodies, {NoOptions}, Responses, Errors)

InitRetry == InitOn(RetryConfigs, {1})
NextRetry == NextOn(RetryEnv)
SpecRetry == InitRetry /\ [][NextRetry]_vars

----------------------------------------------------------------------------
(* Caching: GET calls to two URLs with per-call cache options, a clock and  *)
(* entries that expire                                                     *)

CacheOptions ==
    {Options(<<>>, enabled, maxAge) :
        enabled \in {<<>>, <<TRUE>>, <<FALSE>>}, maxAge \in {<<>>, <<1>>}}

CacheResponses ==
    {Response(TRUE, "200", FALSE, TRUE, t) : t \in {"{id:1}", "{id:2}", "0"}}
    \cup {Response(FALSE, "500", FALSE, TRUE, "Server Error")}

CacheConfigs ==
    {Config("empty", count, 1, "undefined", enabled, 2, 5000) :
        count \in {0, 1}, enabled \in BOOLEAN}

CacheEnv ==
    Environment({"/a", "/b"}, {}, CacheOptions, CacheResponses,
                {PlainError("TypeError", "fetch failed")})

InitCache == InitOn(CacheConfigs, {1})
NextCache ==
    \/ get(CacheEnv)
    \/ FetchResolves(CacheEnv)
    \/ FetchRejects(CacheEnv)
    \/ BodySettles
    \/ RetryTimer
    \/ Collect
    \/ Tick
SpecCache == InitCache /\ [][NextCache]_vars

----------------------------------------------------------------------------
(* Eviction: successful cached GET calls to more URLs than the store is to  *)
(* hold                                                                    *)

EvictUrls == {"/1", "/2", "/3", "/4", "/5", "/6"}

EvictConfigs ==
    {Config("empty", 0, 1, "undefined", TRUE, 2, maxCachedEntries) :
        maxCachedEntries \in 0..MaxEntriesCfg}

EvictEnv ==
    Environment(EvictUrls, {}, {NoOptions},
                {Response(TRUE, "200", FALSE, TRUE, "{id:1}")}, {})

InitEvict == InitOn(EvictConfigs, {1})
NextEvict ==
    \/ get(EvictEnv)
    \/ FetchResolves(EvictEnv)
    \/ BodySettles
    \/ Collect
    \/ Tick
SpecEvict == InitEvict /\ [][NextEvict]_vars

----------------------------------------------------------------------------
(* Properties of the Result and of the retry loop, under SpecRetry *)

Slots == DOMAIN call

Done(c) == call[c].pc = "done"

\* the step starts a call in slot c
Starts(c) == call[c].pc = "idle" /\ call'[c].pc # "idle"

\* the step resolves the promise of the call in slot c
Completes(c) == call[c].pc # "done" /\ call'[c].pc = "done"

\* C1 as stated: every Result has exactly one of data and error non-null.
C1_ExactlyOneField ==
    \A c \in Slots :
        Done(c) =>
            ((call[c].result.data # Null) # (call[c].result.error # <<>>))

\* the responses for which handleRequest returns {data: null, error: null}
BothNullResponse(k) ==
    /\ k.res # <<>>
    /\ k.res[1].ok
    /\ \/ DeleteBranch(k, k.res[1]) /\ config.deleteHandling = "empty"
       \/ /\ DeleteBranch(k, k.res[1]) /\ config.deleteHandling = "json"
          /\ ~k.res[1].readable \/ JSONparse(k.res[1].text) = <<>>
       \/ k.res[1].readable /\ JSONparse(k.res[1].text) = <<Null>>

\* C1, amended: no Result has both data and error non-null, and a Result has
\* both null only for an ok response that is a DELETE response with
\* Content-Length 0 in mode "empty", or in mode "json" with a body that does
\* not decode, or whose body decodes to JSON null.
C1_AtMostOneField ==
    \A c \in Slots :
        Done(c) =>
            /\ ~(call[c].result.data # Null /\ call[c].result.error # <<>>)
            /\ (call[c].result.data = Null /\ call[c].result.error = <<>>)
                   => BothNullResponse(call[c])

\* a DELETE in mode "empty" has returned {data: null, error: null}
C1_Witness ==
    \E c \in Slots :
        /\ Done(c)
        /\ call[c].method = "DELETE"
        /\ config.deleteHandling = "empty"
        /\ call[c].result = Result(Null, <<>>)

\* C2 as stated: no public operation returns a rejected promise.
C2_NeverRejects == \A c \in Slots : call[c].pc # "rejected"

\* C3: with retry count N, a call whose transport failed k times and then
\* returned an ok response with a body that decodes, or never returned a
\* response, has made min(k, N) + 1 transport calls; it got the response and
\* returns no error when k <= N, and returns null data with an error when
\* the transport failed N + 1 times.
C3_RetryBudget ==
    \A c \in Slots :
        LET k == call[c]
            N == config.retry.count
        IN  (Done(c) /\ k.bodyFailures = 0 /\ (k.res # <<>> => k.res[1].ok)) =>
                /\ k.fetches = Min(k.failures, N) + 1
                /\ (k.res # <<>>) <=> (k.failures <= N)
                /\ k.res # <<>> => k.result.error = <<>>
                /\ k.res = <<>> =>
                       /\ k.failures = N + 1
                       /\ k.result.data = Null
                       /\ k.result.error # <<>>

\* two failures, then a success, with a retry count of 2: three transport calls
C3_Witness ==
    \E c \in Slots :
        /\ Done(c)
        /\ config.retry.count = 2
        /\ call[c].failures = 2
        /\ call[c].fetches = 3
        /\ call[c].result = Result("{id:1}", <<>>)

\* C4: when the body text of a non-ok response has been read the call
\* returns {data: null, error} with the text as message and the response's
\* status, without a further transport call, callback invocation or delay;
\* when that response answered the first transport call the call has made
\* exactly one.
C4_NonOkIsFinal ==
    [][\A c \in Slots :
          (/\ call[c].pc = "reading"
           /\ ~call[c].res[1].ok
           /\ call[c].res[1].readable
           /\ call'[c] # call[c]) =>
              /\ call'[c].pc = "done"
              /\ call'[c].result =
                     Result(Null, <<TFetchError(call[c].res[1].text,
                                                call[c].res[1].status)>>)
              /\ call'[c].fetches = call[c].fetches
              /\ call'[c].onRetryCalls = call[c].onRetryCalls
              /\ call'[c].delays = call[c].delays
              /\ (call[c].failures = 0 /\ call[c].bodyFailures = 0) =>
                     /\ call'[c].fetches = 1
                     /\ call'[c].onRetryCalls = 0]_vars

\* a 404 is final although two retries are configured
C4_Witness ==
    \E c \in Slots :
        /\ Done(c)
        /\ config.retry.count = 2
        /\ config.retry.onRetry = "returns"
        /\ call[c].res # <<>>
        /\ ~call[c].res[1].ok
        /\ call[c].fetches = 1
        /\ call[c].onRetryCalls = 0
        /\ call[c].result = Result(Null, <<TFetchError("Not Found", "404")>>)

\* C5 as stated: once the transport has returned a response the call makes
\* no further transport call and waits for no retry.
C5_NoRetryAfterResponse ==
    \A c \in Slots :
        call[c].pc \in {"fetching", "retryDelay"} => call[c].res = <<>>

----------------------------------------------------------------------------
(* Properties of the store's size, under SpecEvict *)

\* C6 as stated: the store never holds more than maxCachedEntries entries.
C6_SizeWithinLimit == Len(cache) <= config.cache.maxCachedEntries

\* C6, amended: with a limit of 4 or more the store never holds more than
\* maxCachedEntries entries; with a smaller limit it never holds more than 4.
C6_SizeWithinLimitFromFour ==
    /\ config.cache.maxCachedEntries >= 4 =>
           Len(cache) <= config.cache.maxCachedEntries
    /\ config.cache.maxCachedEntries < 4 => Len(cache) <= 4

\* an insertion into a full store has swept and left the store at its limit
C6_Witness ==
    \E c \in Slots :
        /\ Done(c)
        /\ call[c].saved
        /\ call[c].swept >= 1
        /\ config.cache.maxCachedEntries >= 4
        /\ Len(cache) = config.cache.maxCachedEntries

----------------------------------------------------------------------------
(* Properties of caching, under SpecCache *)

\* the store holds an entry under key that has not expired
Live(m, key) == MapGet(m, key) # <<>> /\ now <= MapGet(m, key)[1].expiresAt

\* C7 as stated: once a GET with caching enabled has returned non-null
\* data, the store holds an entry under the call's key, and as long as that
\* entry has not expired an identical GET is answered from the store with
\* the same data.
C7_ReturnedDataIsServed ==
    \A c \in Slots :
        (/\ Done(c)
         /\ call[c].method = "GET"
         /\ call[c].cacheEnabled
         /\ call[c].result.data # Null) =>
            /\ MapGet(cache, call[c].key) # <<>>
            /\ Live(cache, call[c].key) =>
                   getFromCache(cache, call[c].key).ret = call[c].result.data

\* C8: the step in which a call returns an error leaves the store as it
\* was; the store changes only when a call with caching enabled returns
\* data without an error, or when a lookup removes the expired entry under
\* the call's own key; after a call with caching enabled has returned an
\* error the store holds no entry under its key, and a call with caching
\* enabled that finds no entry under its key makes a transport call.
C8_ErrorsNotCached ==
    [][\A c \in Slots :
          /\ (Completes(c) /\ call'[c].result.error # <<>>) =>
                 /\ cache' = cache
                 /\ ~call'[c].saved
                 /\ call'[c].cacheEnabled =>
                        MapGet(cache', call'[c].key) = <<>>
          /\ (call'[c] # call[c] /\ cache' # cache) =>
                 \/ /\ Completes(c)
                    /\ call'[c].cacheEnabled
                    /\ call'[c].result.error = <<>>
                    /\ call'[c].result.data # Null
                 \/ /\ Starts(c)
                    /\ ~Live(cache, call'[c].key)
                    /\ cache' = MapDelete(cache, call'[c].key)
          /\ (Starts(c) /\ call'[c].cacheEnabled
                /\ MapGet(cache, call'[c].key) = <<>>) =>
                 /\ call'[c].pc = "fetching"
                 /\ call'[c].fetches = 1]_vars

\* a call with caching enabled has returned an error while the store holds
\* another URL's entry
C8_Witness ==
    \E c \in Slots :
        /\ Done(c)
        /\ call[c].cacheEnabled
        /\ call[c].result.error # <<>>
        /\ cache # <<>>

\* C9: an entry is inserted with timestamp = the instant of insertion and
\* expiresAt = that instant + maxAge; a lookup with caching enabled that
\* finds an entry returns its data, leaving the store as it is, at every
\* instant up to expiresAt (the instant after the insertion among them), and
\* at every later instant removes the entry and makes a transport call.
C9_RoundTripAndExpiry ==
    [][\A c \in Slots :
          /\ (Completes(c) /\ call'[c].saved) =>
                 MapGet(cache', call'[c].key) =
                     <<CacheEntry(call'[c].key, call'[c].result.data, now,
                                  now + call'[c].cacheMaxAge)>>
          /\ (Starts(c) /\ call'[c].cacheEnabled
                /\ MapGet(cache, call'[c].key) # <<>>) =>
                 LET entry == MapGet(cache, call'[c].key)[1]
                 IN  /\ entry.expiresAt > entry.timestamp
                     /\ now <= entry.expiresAt =>
                            /\ call'[c].pc = "done"
                            /\ call'[c].result = Result(entry.data, <<>>)
                            /\ call'[c].fetches = 0
                            /\ cache' = cache
                     /\ now > entry.expiresAt =>
                            /\ MapGet(cache', call'[c].key) = <<>>
                            /\ call'[c].pc = "fetching"
                            /\ call'[c].fetches = 1]_vars

\* a lookup has removed an expired entry and the call is at the transport
C9_Witness ==
    \E c \in Slots :
        /\ call[c].pc = "fetching"
        /\ call[c].expired
        /\ call[c].fetches = 1
        /\ MapGet(cache, call[c].key) = <<>>

\* the cache options of a call: the per-call value if given, else the client's
ResolvedEnabled(k) == Coalesce(k.opts.enabled, config.cache.enabled)
ResolvedMaxAge(k) == Coalesce(k.opts.maxAge, config.cache.maxAge)

\* C10: a call whose resolved cache flag (per-call value if given, else the
\* client's) is false makes a transport call whatever the store holds and
\* never changes the store; a call whose resolved flag is true is answered
\* from the store when the store holds a live entry under its key, and an
\* entry it inserts expires at the instant of insertion + the per-call
\* maxAge if given, else the client's.
C10_PerCallCacheOptions ==
    [][\A c \in Slots :
          LET k == call'[c]
          IN  /\ (Starts(c) /\ ~ResolvedEnabled(k)) =>
                     /\ k.pc = "fetching"
                     /\ k.fetches = 1
                     /\ cache' = cache
              /\ (k # call[c] /\ k.pc # "idle" /\ ~ResolvedEnabled(k)) =>
                     cache' = cache
              /\ (Starts(c) /\ ResolvedEnabled(k) /\ Live(cache, k.key)) =>
                     /\ k.pc = "done"
                     /\ k.hit
                     /\ k.fetches = 0
              /\ (Completes(c) /\ ResolvedEnabled(k) /\ cache' # cache) =>
                     /\ MapGet(cache', k.key) # <<>>
                     /\ MapGet(cache', k.key)[1].data = k.result.data
                     /\ MapGet(cache', k.key)[1].expiresAt = now + ResolvedMaxAge(k)
              /\ (Completes(c) /\ ~k.hit /\ k.result.data = "{id:1}") =>
                     (k.saved <=> ResolvedEnabled(k))]_vars

\* with caching off for the client, a call that turned it on with its own
\* maxAge has stored its data, and with caching on for the client a call
\* that turned it off is at the transport although the entry is live
C10_Witness ==
    \E c \in Slots :
        \/ /\ ~config.cache.enabled
           /\ Done(c)
           /\ call[c].opts = [enabled |-> <<TRUE>>, maxAge |-> <<1>>]
           /\ call[c].saved
           /\ MapGet(cache, call[c].key) # <<>>
           /\ MapGet(cache, call[c].key)[1].expiresAt = now + 1
        \/ /\ config.cache.enabled
           /\ call[c].pc = "fetching"
           /\ call[c].opts.enabled = <<FALSE>>
           /\ Live(cache, call[c].key)

----------------------------------------------------------------------------
(* Properties of DELETE handling, under SpecRetry *)

----------------------------------------------------------------------------
(* Properties of request bodies, under SpecRetry *)

\* wrappers with valid data for their type
ValidWrappers ==
    {Wrapper("json", "object"), Wrapper("form", "object"), Wrapper("text", "number"),
     Wrapper("blob", "Blob"), Wrapper("multipart", "FormData"),
     Wrapper("xml", "markup"), Wrapper("html", "markup")}

\* C17 as stated: a post, put or patch with a wrapper of any of the seven
\* types and valid data is prepared and serialized without failure: it
\* reaches the transport, sent with the type's default Content-Type.
C17_AllTypesSupported ==
    \A c \in Slots :
        (call[c].pc # "idle" /\ call[c].wrapper \in ValidWrappers) =>
            /\ call[c].fetches >= 1
            /\ <<"content-type", getHeaders(call[c].wrapper.type)[1][2]>>
                   \in call[c].headers

----------------------------------------------------------------------------
(* Configuration: clients constructed from partial options *)

RetryOptions ==
    [count : {<<>>, <<2>>}, delay : {<<>>, <<1>>}, onRetry : {<<>>, <<"returns">>}]

CacheConfigOptions ==
    [enabled : {<<>>, <<TRUE>>}, maxAge : {<<>>, <<1>>},
     maxCachedEntries : {<<>>, <<3>>}]

PartialOptions ==
    {<<>>} \cup
    {<<o>> : o \in [debug : {<<>>, <<TRUE>>},
                    headers : {<<>>, << << <<"X-Custom-Header", "test">> >> >>},
                    deleteHandling : {<<>>, <<"status">>, <<"json">>},
                    retry : {<<>>} \cup {<<r>> : r \in RetryOptions},
                    cache : {<<>>} \cup {<<r>> : r \in CacheConfigOptions}]}

ConfigEnv ==
    Environment({"/a"}, {}, {NoOptions},
                {Response(TRUE, "200", FALSE, TRUE, "{id:1}")}, {})

InitConfig == InitOn({constructor(opts) : opts \in PartialOptions}, {1})
NextConfig ==
    \/ get(ConfigEnv)
    \/ delete(ConfigEnv)
    \/ FetchResolves(ConfigEnv)
    \/ BodySettles
    \/ Collect
SpecConfig == InitConfig /\ [][NextConfig]_vars

\* the value a field resolves to: the supplied one, else the default
Resolved(supplied, default) == IF supplied = <<>> THEN default ELSE supplied[1]

\* C18: whatever partial options the client was constructed from, every
\* field of its configuration is the supplied value if one was supplied and
\* else its default: debug false, headers {}, deleteHandling "empty",
\* retry.count 0, retry.delay 1000, retry.onRetry undefined, cache.enabled
\* false, cache.maxAge 5 minutes (300000), cache.maxCachedEntries 5000.
C18_ConfigurationDefaults ==
    \A opts \in PartialOptions :
        config = constructor(opts) =>
            LET retry == Field(opts, "retry")
                cache_ == Field(opts, "cache")
            IN  /\ config.debug = Resolved(Field(opts, "debug"), FALSE)
                /\ config.headers = Resolved(Field(opts, "headers"), <<>>)
                /\ config.deleteHandling =
                       Resolved(Field(opts, "deleteHandling"), "empty")
                /\ config.retry.count = Resolved(Field(retry, "count"), 0)
                /\ config.retry.delay = Resolved(Field(retry, "delay"), 1000)
                /\ config.retry.onRetry =
                       Resolved(Field(retry, "onRetry"), "undefined")
                /\ config.cache.enabled = Resolved(Field(cache_, "enabled"), FALSE)
                /\ config.cache.maxAge = Resolved(Field(cache_, "maxAge"), 300000)
                /\ config.cache.maxCachedEntries =
                       Resolved(Field(cache_, "maxCachedEntries"), 5000)

\* a client constructed with retry.count alone is in use: delay is 1000
C18_Witness ==
    /\ config.retry.count = 2
    /\ config.retry.delay = 1000
    /\ config.retry.onRetry = "undefined"
    /\ config.cache.maxAge = 1
    /\ config.cache.enabled = FALSE
    /\ config.cache.maxCachedEntries = 5000
    /\ \E c \in Slots : Done(c)

----------------------------------------------------------------------------
(* Keys and headers: two callers, no caching, calls that differ in method,  *)
(* URL, headers and body                                                   *)

\* config with the client's default headers replaced
WithHeaders(cfg, headers) == [cfg EXCEPT !.headers = headers]

KeyConfigs ==
    {WithHeaders(Config("empty", 0, 1, "undefined", FALSE, 2, 5000), headers) :
        headers \in {<<>>,
                     << <<"Content-Type", "text/csv">> >>,
                     << <<"Authorization", "Bearer A">>, <<"X-Custom-Header", "base">> >>}}

KeyOptions ==
    {Options(headers, <<>>, <<>>) :
        headers \in {<<>>,
                     << <<"content-type", "application/xml">> >>,
                     << <<"Authorization", "Bearer B">> >>,
                     << <<"X-Custom-Header", "test">> >>}}

KeyEnv ==
    Environment({"/a", "/a?x=1"},
                {Wrapper("json", "object"), Wrapper("json", "markup"),
                 Wrapper("text", "number")},
                KeyOptions,
                {Response(TRUE, "200", FALSE, TRUE, "{id:1}")}, {})

InitKeys == InitOn(KeyConfigs, {1, 2})
NextKeys ==
    \/ get(KeyEnv)
    \/ post(KeyEnv)
    \/ put(KeyEnv)
    \/ patch(KeyEnv)
    \/ delete(KeyEnv)
    \/ head(KeyEnv)
    \/ FetchResolves(KeyEnv)
    \/ BodySettles
    \/ Collect
SpecKeys == InitKeys /\ [][NextKeys]_vars

\* the call in slot c has got as far as its cache key
Keyed(c) == call[c].pc \notin {"idle", "rejected"}

\* the header sources of a call, in the order they are merged
Sources(k) ==
    IF k.wrapper.present
    THEN <<config.headers, getHeaders(k.wrapper.type), k.perCall>>
    ELSE <<config.headers, k.perCall>>

\* the [name, value] pairs of the sources, one after the other
RECURSIVE Flatten(_)
Flatten(sources) ==
    IF sources = <<>> THEN <<>> ELSE sources[1] \o Flatten(Tail(sources))

\* the lower-case names the pairs define
NamesOf(pairs) == {toLowerCase(pairs[i][1]) : i \in DOMAIN pairs}

\* the value of the last pair that defines name, whatever its case
LastValue(pairs, name) ==
    LET defining == {i \in DOMAIN pairs : toLowerCase(pairs[i][1]) = name}
    IN  pairs[CHOOSE i \in defining : \A j \in defining : j <= i][2]

\* C19: the headers a call gives to fetch hold every name that the client's
\* default headers, the body type's default Content-Type (post, put and
\* patch) or the per-call headers define, names compared without regard to
\* case, each with the value of the last of these sources that defines it.
C19_MergePrecedence ==
    \A c \in Slots :
        Keyed(c) =>
            LET pairs == Flatten(Sources(call[c]))
            IN  call[c].headers =
                    {<<name, LastValue(pairs, name)>> : name \in NamesOf(pairs)}

\* a post from a client whose default Content-Type is text/csv, with a json
\* body and a per-call content-type, is sent with the per-call value
C19_Witness ==
    \E c \in Slots :
        /\ Keyed(c)
        /\ call[c].method = "POST"
        /\ call[c].wrapper.type = "json"
        /\ config.headers = << <<"Content-Type", "text/csv">> >>
        /\ call[c].perCall = << <<"content-type", "application/xml">> >>
        /\ call[c].headers = {<<"content-type", "application/xml">>}

\* the headers the key is to depend on
EssentialPairs(headers) ==
    {pair \in headers : pair[1] \in {"authorization", "content-type"}}

\* C13 as stated: two calls have the same cache key exactly when they have
\* the same method, URL, authorization and content-type header values and
\* serialized body.
C13_KeySensitivity ==
    \A c1, c2 \in Slots :
        (Keyed(c1) /\ Keyed(c2)) =>
            (call[c1].key = call[c2].key <=>
                 /\ call[c1].method = call[c2].method
                 /\ call[c1].url = call[c2].url
                 /\ EssentialPairs(call[c1].headers) = EssentialPairs(call[c2].headers)
                 /\ call[c1].body = call[c2].body)

----------------------------------------------------------------------------
(* Sharing: two callers of one client with caching enabled issue GET calls  *)
(* to one URL, with the same or with different headers, concurrently       *)

SharedConfigs ==
    {WithHeaders(Config("empty", 0, 1, "undefined", TRUE, 2, 5000), headers) :
        headers \in {<<>>, << <<"Authorization", "Bearer A">> >>}}

SharedOptions ==
    {Options(headers, <<>>, <<>>) :
        headers \in {<<>>,
                     << <<"Authorization", "Bearer B">> >>,
                     << <<"X-Custom-Header", "test">> >>}}

SharedEnv ==
    Environment({"/a"}, {}, SharedOptions,
                {Response(TRUE, "200", FALSE, TRUE, "{id:1}"),
                 Response(TRUE, "200", FALSE, TRUE, "{id:2}"),
                 Response(FALSE, "500", FALSE, TRUE, "Server Error")},
                {})

InitShared == InitOn(SharedConfigs, {1, 2})
NextShared ==
    \/ get(SharedEnv)
    \/ FetchResolves(SharedEnv)
    \/ BodySettles
    \/ Collect
    \/ Tick
SpecShared == InitShared /\ [][NextShared]_vars

\* headers.get(name) of the headers given to fetch: <<value>> or <<>>
HeaderValue(headers, name) ==
    IF \E pair \in headers : pair[1] = name
    THEN <<(CHOOSE pair \in headers : pair[1] = name)[2]>>
    ELSE <<>>

\* C11 as stated: when a call has stored its data and another call for the
\* same method and URL, sent with a different Authorization value or with
\* none, has been answered from the store, the two calls have different
\* cache keys.
C11_AuthorizationIsolation ==
    \A c1, c2 \in Slots :
        (/\ Done(c1) /\ call[c1].saved
         /\ Done(c2) /\ call[c2].hit
         /\ call[c1].method = call[c2].method
         /\ call[c1].url = call[c2].url
         /\ HeaderValue(call[c1].headers, "authorization")
                # HeaderValue(call[c2].headers, "authorization")) =>
            call[c1].key # call[c2].key

\* C12 as stated: when a GET has stored its data and a GET to the same URL
\* with different per-call headers has been answered from the store, the
\* two calls have different cache keys.
C12_HeadersSeparateEntries ==
    \A c1, c2 \in Slots :
        (/\ Done(c1) /\ call[c1].saved /\ call[c1].method = "GET"
         /\ Done(c2) /\ call[c2].hit /\ call[c2].method = "GET"
         /\ call[c1].url = call[c2].url
         /\ call[c1].perCall # call[c2].perCall) =>
            call[c1].key # call[c2].key

\* the call in slot c is between its transport call and its result
InFlight(c) == call[c].pc \in {"fetching", "reading"}

\* the entries of the store under a key
EntriesUnder(m, key) == {i \in DOMAIN m : m[i].key = key}

\* C14: there is no single-flight. With retry count 0 a call makes at most
\* one transport call; a call started while an identical call is in flight
\* and the store has no live entry for their key observes a miss and makes
\* its own transport call; and each insertion replaces what was stored
\* under the key, so that after every completion that stores its data the
\* store holds exactly one entry for the key, carrying the data of the call
\* that has just completed.
C14_NoSingleFlight ==
    /\ [](\A c \in Slots : config.retry.count = 0 => call[c].fetches <= 1)
    /\ [](\A c \in Slots :
            Keyed(c) => Cardinality(EntriesUnder(cache, call[c].key)) <= 1)
    /\ [][\A c1, c2 \in Slots :
            (/\ c1 # c2 /\ InFlight(c1) /\ Starts(c2)
             /\ call'[c2].key = call[c1].key
             /\ ~Live(cache, call[c1].key)) =>
                (/\ ~call'[c2].hit
                 /\ call'[c2].fetches = 1
                 /\ InFlight(c1)' /\ InFlight(c2)')]_vars
    /\ [][\A c \in Slots :
            (Completes(c) /\ call'[c].saved) =>
                (/\ Cardinality(EntriesUnder(cache', call'[c].key)) = 1
                 /\ MapGet(cache', call'[c].key)[1].data = call'[c].result.data)]_vars

\* before the clock has moved, two identical calls have each made their own
\* transport call and stored different data: they were in flight together,
\* and the store holds one entry
C14_Witness ==
    /\ now = 1
    /\ \A c \in Slots :
          Done(c) /\ call[c].saved /\ ~call[c].hit /\ call[c].fetches = 1
    /\ call[1].key = call[2].key
    /\ call[1].result.data # call[2].result.data
    /\ Len(cache) = 1

----------------------------------------------------------------------------
(* Methods: one caller of a client with caching enabled uses all six       *)
(* methods, with bodies that can and bodies that cannot be prepared; the   *)
(* retry delay is 0 and no entry expires                                   *)

MethodConfigs ==
    {Config("empty", count, 0, "returns", TRUE, 2, 5000) : count \in {0, 1}}

MethodBodies ==
    {NoWrapper, Wrapper("json", "object"), Wrapper("json", "circular"),
     Wrapper("xml", "markup"), Wrapper("bogus", "object")}

MethodEnv ==
    Environment({"/a"}, MethodBodies, {NoOptions},
                {Response(TRUE, "200", FALSE, TRUE, "{id:1}"),
                 Response(TRUE, "200", FALSE, TRUE, "0")},
                {PlainError("TypeError", "fetch failed")})

InitMethods == InitOn(MethodConfigs, {1})
NextMethods ==
    \/ get(MethodEnv)
    \/ post(MethodEnv)
    \/ put(MethodEnv)
    \/ patch(MethodEnv)
    \/ delete(MethodEnv)
    \/ head(MethodEnv)
    \/ FetchResolves(MethodEnv)
    \/ FetchRejects(MethodEnv)
    \/ BodySettles
    \/ RetryTimer
    \/ Collect
SpecMethods == InitMethods /\ [][NextMethods]_vars

\* preparing or serializing the body fails
BodyFails(body) ==
    \/ ~body.present
    \/ prepareBody(body).throws # <<>>
    \/ serializeBody(prepareBody(body).ret).throws # <<>>

\* C16: the step that starts a post, put or patch whose body cannot be
\* prepared or serialized ends the call at once: no transport call has been
\* made, the on-retry callback has not been invoked, no retry delay has
\* been started, and the store is as it was; and a call that has made a
\* transport call had a body that could be prepared and serialized.
C16_BodyErrorsPrecedeNetwork ==
    /\ [][\A c \in Slots :
            (/\ Starts(c)
             /\ call'[c].method \in {"POST", "PUT", "PATCH"}
             /\ BodyFails(call'[c].wrapper)) =>
                (/\ call'[c].pc = "rejected"
                 /\ call'[c].thrown # <<>>
                 /\ call'[c].fetches = 0
                 /\ call'[c].onRetryCalls = 0
                 /\ call'[c].delays = 0
                 /\ cache' = cache)]_vars
    /\ [](\A c \in Slots :
            (call[c].method \in {"POST", "PUT", "PATCH"} /\ call[c].fetches >= 1) =>
                ~BodyFails(call[c].wrapper))

\* a post whose body has an unsupported type has ended without a transport
\* call while the store holds an entry
C16_Witness ==
    \E c \in Slots :
        /\ call[c].pc = "rejected"
        /\ call[c].method = "POST"
        /\ call[c].wrapper = Wrapper("xml", "markup")
        /\ call[c].fetches = 0
        /\ config.retry.count = 1
        /\ cache # <<>>

\* the key the call in slot c would have under another method
KeyUnder(c, method) ==
    generateCacheKey(call[c].url, method,
                     HeadersObject(mergeHeaders(Sources(call[c]))), call[c].body)

\* C20 as stated: once a post, put, patch, delete or head with caching
\* enabled has returned non-null data, the store holds an entry under the
\* call's key, and as long as that entry has not expired an identical call
\* is answered from the store with the same data; and the call's key is the
\* key of no other method for the same URL, headers and body.
C20_EveryMethodIsCached ==
    \A c \in Slots :
        (/\ Done(c)
         /\ call[c].method \in {"POST", "PUT", "PATCH", "DELETE", "HEAD"}
         /\ call[c].cacheEnabled
         /\ call[c].result.data # Null) =>
            /\ MapGet(cache, call[c].key) # <<>>
            /\ Live(cache, call[c].key) =>
                   getFromCache(cache, call[c].key).ret = call[c].result.data
            /\ \A method \in {"GET", "POST", "PUT", "PATCH", "DELETE", "HEAD"} :
                   method # call[c].method => KeyUnder(c, method) # call[c].key

----------------------------------------------------------------------------
(* Properties of the retry loop, under SpecRetry *)

\* C21: whatever mix of failed transport calls, non-ok responses and failed
\* body reads a call meets, it never makes more than retry.count + 1
\* transport calls; with retry.count = 0 the on-retry callback is never
\* invoked and no delay is begun, and a call that has returned made exactly
\* one transport call.
C21_AttemptBound ==
    \A c \in Slots :
        /\ call[c].fetches <= config.retry.count + 1
        /\ config.retry.count = 0 =>
               /\ call[c].onRetryCalls = 0
               /\ call[c].delays = 0
               /\ (Done(c) /\ ~call[c].hit) => call[c].fetches = 1

\* a call with two retries has used all three attempts on a mix of failed
\* transport calls and failed body reads
C21_Witness ==
    \E c \in Slots :
        /\ Done(c)
        /\ config.retry.count = 2
        /\ call[c].fetches = 3
        /\ call[c].failures >= 1
        /\ call[c].bodyFailures >= 1
        /\ call[c].result.error # <<>>

\* C22: the step that begins a retry invokes the on-retry callback once,
\* if there is one, and begins one delay that ends retry.delay after the
\* step, the same for every retry; callbacks and delays happen in no other
\* step; a transport call is made only when a call starts or when its delay
\* is over; and a call that has returned its Result has begun one delay,
\* and invoked the callback once, if there is one, for each transport call
\* after its first.
C22_RetryStepOrder ==
    /\ [][\A c \in Slots :
            /\ (call[c].pc # "retryDelay" /\ call'[c].pc = "retryDelay") =>
                   /\ call[c].pc \in {"fetching", "reading"}
                   /\ call'[c].onRetryCalls = call[c].onRetryCalls
                          + (IF config.retry.onRetry = "undefined" THEN 0 ELSE 1)
                   /\ call'[c].delays = call[c].delays + 1
                   /\ call'[c].wakeAt = now + config.retry.delay
                   /\ call'[c].fetches = call[c].fetches
            /\ (call'[c].pc # "idle" /\ call'[c].delays # call[c].delays) =>
                   call[c].pc # "retryDelay" /\ call'[c].pc = "retryDelay"
            /\ (call'[c].pc # "idle" /\ call'[c].onRetryCalls # call[c].onRetryCalls) =>
                   \/ call[c].pc # "retryDelay" /\ call'[c].pc = "retryDelay"
                   \/ config.retry.onRetry = "throws" /\ call'[c].pc = "rejected"
            /\ (call'[c].pc # "idle" /\ call'[c].fetches # call[c].fetches) =>
                   /\ call'[c].fetches = call[c].fetches + 1
                   /\ call'[c].pc = "fetching"
                   /\ \/ Starts(c)
                      \/ call[c].pc = "retryDelay" /\ now >= call[c].wakeAt]_vars
    /\ [](\A c \in Slots :
            (Done(c) /\ ~call[c].hit) =>
                /\ call[c].delays = call[c].fetches - 1
                /\ config.retry.onRetry # "undefined" =>
                       call[c].onRetryCalls = call[c].fetches - 1
                /\ config.retry.onRetry = "undefined" => call[c].onRetryCalls = 0)

\* a call has returned after three transport calls, two callbacks and two
\* delays
C22_Witness ==
    \E c \in Slots :
        /\ Done(c)
        /\ config.retry.onRetry = "returns"
        /\ call[c].fetches = 3
        /\ call[c].onRetryCalls = 2
        /\ call[c].delays = 2

\* the error handleRequest returns when the budget is exhausted on error
TerminalError(error) ==
    TFetchError(IF error.message # "" THEN error.message
                ELSE "Request failed after max retries",
                IF error.name = "TFetchError" THEN error.status ELSE Undefined)

\* C27: a call that has returned after retry.count + 1 failed transport
\* calls, without ever getting a response, returns {data: null, error}
\* where the error is a TFetchError with the message of the last failure,
\* or "Request failed after max retries" when that message is empty, and
\* with the last failure's status when it is a TFetchError and undefined
\* otherwise; and the failure a step reports is the one the transport
\* failed with in that step.
C27_TerminalRetryError ==
    /\ [](\A c \in Slots :
            (/\ Done(c)
             /\ call[c].res = <<>>
             /\ call[c].failures = config.retry.count + 1) =>
                /\ call[c].lastError # <<>>
                /\ call[c].result =
                       Result(Null, <<TerminalError(call[c].lastError[1])>>))
    /\ [][\A c \in Slots :
            call'[c].failures = call[c].failures + 1 =>
                /\ call[c].pc = "fetching"
                /\ call'[c].lastError \in {<<error>> : error \in Errors}
                /\ call'[c].firstError =
                       IF call[c].firstError = <<>> THEN call'[c].lastError
                       ELSE call[c].firstError]_vars

\* the transport failed first with a TypeError and last with a TFetchError
\* of status 503, and the call returns the latter
C27_Witness ==
    \E c \in Slots :
        /\ Done(c)
        /\ call[c].res = <<>>
        /\ call[c].firstError = <<PlainError("TypeError", "fetch failed")>>
        /\ call[c].lastError = <<TFetchError("upstream", "503")>>
        /\ call[c].result = Result(Null, <<TFetchError("upstream", "503")>>)

----------------------------------------------------------------------------
(* Termination: one caller, no caching, a retry delay of 0, and a          *)
(* transport, body reads and timers that eventually settle                 *)

LiveConfigs ==
    {Config(mode, count, 0, onRetry, FALSE, 2, 0) :
        mode \in {"empty", "json"},
        count \in 0..MaxRetryCount,
        onRetry \in {"undefined", "returns", "throws"}}

LiveEnv ==
    Environment({"/a"}, {Wrapper("json", "object"), Wrapper("json", "null")},
                {NoOptions}, Responses, Errors)

InitLive == InitOn(LiveConfigs, {1})
NextLive ==
    \/ get(LiveEnv)
    \/ post(LiveEnv)
    \/ put(LiveEnv)
    \/ patch(LiveEnv)
    \/ delete(LiveEnv)
    \/ head(LiveEnv)
    \/ FetchResolves(LiveEnv)
    \/ FetchRejects(LiveEnv)
    \/ BodySettles
    \/ RetryTimer
    \/ Collect

\* every transport call resolves or rejects, every body read settles, and
\* every timer fires
SpecLive ==
    /\ InitLive
    /\ [][NextLive]_vars
    /\ WF_vars(FetchResolves(LiveEnv) \/ FetchRejects(LiveEnv))
    /\ WF_vars(BodySettles)
    /\ WF_vars(RetryTimer)

\* the states of a call: attempting, retrying, and returned
Attempting == call[1].pc \in {"fetching", "reading"}
Retrying == call[1].pc = "retryDelay"
Returned == call[1].pc = "done"

\* C28: a call that is attempting or retrying eventually returns a Result,
\* when the on-retry callback returns; from attempting a call goes on
\* attempting (the body read after the transport call), retries, returns,
\* or is ended by a throwing callback; from retrying it goes back to
\* attempting; a call that has returned stays as it is until its caller
\* takes the Result; and a call retries at most retry.count times.
C28_Termination ==
    /\ ((Attempting \/ Retrying) /\ config.retry.onRetry # "throws") ~> Returned
    /\ [](call[1].delays <= config.retry.count)
    /\ [][/\ call[1].pc = "fetching" =>
                call'[1].pc \in {"fetching", "reading", "retryDelay", "done", "rejected"}
          /\ call[1].pc = "reading" =>
                call'[1].pc \in {"reading", "retryDelay", "done", "rejected"}
          /\ (call[1].pc \in {"fetching", "reading"} /\ call'[1].pc = "rejected") =>
                config.retry.onRetry = "throws"
          /\ call[1].pc = "retryDelay" => call'[1].pc \in {"retryDelay", "fetching"}
          /\ call[1].pc = "done" =>
                call'[1] = call[1] \/ call'[1] = Idle]_vars

\* a call has returned data after two retries, one of them after a failed
\* body read
C28_Witness ==
    /\ Returned
    /\ config.retry.count = 2
    /\ call[1].delays = 2
    /\ call[1].bodyRetries >= 1
    /\ call[1].failures >= 1
    /\ call[1].result.error = <<>>
    /\ call[1].result.data # Null

----------------------------------------------------------------------------
(* Properties of the sweep, under SpecEvict *)

\* the step is an insertion into the store by the call in slot c
Inserts(c) == Completes(c) /\ call'[c].saved

\* C23 as stated: the store never holds more than maxCachedEntries + 1
\* entries, and it holds maxCachedEntries + 1 entries only right after an
\* insertion whose sweep removed nothing.
C23_AtMostOneOver ==
    /\ [](Len(cache) <= config.cache.maxCachedEntries + 1)
    /\ [][\A c \in Slots :
            (Inserts(c) /\ Len(cache') = config.cache.maxCachedEntries + 1) =>
                call'[c].swept = 0]_vars

\* C23, amended: the store never holds more entries than the larger of
\* maxCachedEntries and 4; it exceeds maxCachedEntries only when that is
\* less than 4; and an insertion leaves maxCachedEntries + 1 entries only
\* when its sweep removed nothing, or when maxCachedEntries is 3 and its
\* sweep removed one entry of four.
C23_AtMostFourOver ==
    /\ [](Len(cache) <= IF config.cache.maxCachedEntries > 4
                        THEN config.cache.maxCachedEntries ELSE 4)
    /\ [](Len(cache) > config.cache.maxCachedEntries =>
              config.cache.maxCachedEntries < 4)
    /\ [][\A c \in Slots :
            (Inserts(c) /\ Len(cache') = config.cache.maxCachedEntries + 1) =>
                \/ call'[c].swept = 0
                \/ /\ config.cache.maxCachedEntries = 3
                   /\ Len(cache) = 4
                   /\ call'[c].swept = 1]_vars

\* with a limit of 0 the store holds four entries
C23_Witness ==
    \E c \in Slots :
        /\ Done(c)
        /\ call[c].saved
        /\ config.cache.maxCachedEntries = 0
        /\ Len(cache) = 4

\* the entries of the store, other than the one under key, that an insertion
\* under key removed
Gone(key) ==
    {i \in DOMAIN cache : cache[i].key # key /\ cache[i].key \notin Keys(cache')}

\* the entries of the store, other than the one under key, that it kept
Kept(key) ==
    {i \in DOMAIN cache : cache[i].key # key /\ cache[i].key \in Keys(cache')}

\* C24: every insertion is preceded by a sweep. The sweep removes nothing
\* when the store holds fewer than maxCachedEntries entries and removes
\* floor(size / 4) entries otherwise; no entry that survives has a smaller
\* timestamp than an entry that was removed; the surviving entries are
\* unchanged; and the inserted entry is in the store afterwards.
C24_EvictionSweep ==
    [][\A c \in Slots :
         Inserts(c) =>
            LET key == call'[c].key
                n == IF Len(cache) >= config.cache.maxCachedEntries
                     THEN Len(cache) \div 4 ELSE 0
            IN  /\ call'[c].swept = n
                /\ Cardinality(call'[c].evicted) = n
                /\ Cardinality(Gone(key)) =
                       n - Cardinality({e \in call'[c].evicted : e.key = key})
                /\ \A i \in Gone(key) : cache[i] \in call'[c].evicted
                /\ \A i \in Kept(key) : MapGet(cache', cache[i].key) = <<cache[i]>>
                /\ \A e \in call'[c].evicted, i \in Kept(key) :
                       cache[i].timestamp >= e.timestamp
                /\ \A e \in call'[c].evicted : e \in {cache[i] : i \in DOMAIN cache}
                /\ MapGet(cache', key) # <<>>
                /\ MapGet(cache', key)[1].timestamp = now
                /\ Len(cache') = Cardinality(Kept(key)) + 1]_vars

\* an insertion into a full store has removed one entry, and an entry with
\* a larger timestamp than the removed one is still in the store
C24_Witness ==
    \E c \in Slots :
        /\ Done(c)
        /\ call[c].saved
        /\ call[c].swept = 1
        /\ \E e \in call[c].evicted, i \in DOMAIN cache :
              /\ cache[i].key # call[c].key
              /\ e.timestamp < cache[i].timestamp

----------------------------------------------------------------------------
(* Properties of what is stored, under SpecCache *)

\* C25 as stated: when a call with caching enabled returns non-null data
\* that it got from the transport, the store holds afterwards an entry under
\* the call's key with that data, timestamp = the instant of the return and
\* expiresAt = that instant + the call's resolved maxAge.
C25_EverySuccessStored ==
    [][\A c \in Slots :
          LET k == call'[c]
          IN  (/\ Completes(c)
               /\ ~k.hit
               /\ ResolvedEnabled(k)
               /\ k.result.data # Null) =>
                  MapGet(cache', k.key) =
                      <<CacheEntry(k.key, k.result.data, now,
                                   now + ResolvedMaxAge(k))>>]_vars

----------------------------------------------------------------------------
(* Properties of DELETE calls, under SpecRetry *)

\* C26 as stated: in delete-handling mode "empty", a DELETE call that got
\* an ok response never reads the response body and returns
\* {data: null, error: null}.
C26_EmptyModeNeverDecodes ==
    \A c \in Slots :
        (/\ call[c].method = "DELETE"
         /\ config.deleteHandling = "empty"
         /\ call[c].res # <<>>
         /\ call[c].res[1].ok) =>
            /\ call[c].pc # "reading"
            /\ Done(c) => call[c].result = Result(Null, <<>>)

----------------------------------------------------------------------------
(* Expiry: cached GET calls to five URLs with a store of four entries,     *)
(* entries that never expire and entries that expire at once, and a clock  *)

ExpiryUrls == {"/1", "/2", "/3", "/4", "/5"}

ExpiryConfigs == {Config("empty", 0, 1, "undefined", TRUE, 5, 4)}

ExpiryOptions == {Options(<<>>, <<>>, maxAge) : maxAge \in {<<>>, <<0>>}}

ExpiryEnv ==
    Environment(ExpiryUrls, {}, ExpiryOptions,
                {Response(TRUE, "200", FALSE, TRUE, "{id:1}")}, {})

InitExpiry == InitOn(ExpiryConfigs, {1})
NextExpiry ==
    \/ get(ExpiryEnv)
    \/ FetchResolves(ExpiryEnv)
    \/ BodySettles
    \/ Collect
    \/ Tick
SpecExpiry == InitExpiry /\ [][NextExpiry]_vars

\* the entry has expired
Expired(entry) == entry.expiresAt # 0 /\ now > entry.expiresAt

\* C29: a call is answered from the store only with the data of an entry
\* that has not expired; an entry leaves the store or changes only when a
\* call reads its key after it has expired, when a call inserts under its
\* key, or when the sweep before an insertion removes it, so an expired
\* entry stays otherwise; the sweep counts expired entries in the size it
\* compares with maxCachedEntries; and it removes by timestamp alone: no
\* entry it keeps, expired or not, is older than one it removes.
C29_LazyExpiry ==
    [][\A c \in Slots :
         /\ (Starts(c) /\ call'[c].hit) =>
                /\ MapGet(cache, call'[c].key) # <<>>
                /\ ~Expired(MapGet(cache, call'[c].key)[1])
                /\ call'[c].result.data = MapGet(cache, call'[c].key)[1].data
         /\ (Starts(c) /\ call'[c].cacheEnabled
               /\ MapGet(cache, call'[c].key) # <<>>
               /\ Expired(MapGet(cache, call'[c].key)[1])) =>
                /\ ~call'[c].hit
                /\ call'[c].fetches = 1
                /\ cache' = MapDelete(cache, call'[c].key)
         /\ \A i \in DOMAIN cache :
                MapGet(cache', cache[i].key) # <<cache[i]>> =>
                    \/ /\ Starts(c)
                       /\ call'[c].key = cache[i].key
                       /\ Expired(cache[i])
                    \/ /\ Inserts(c)
                       /\ \/ call'[c].key = cache[i].key
                          \/ cache[i] \in call'[c].evicted
         /\ Inserts(c) =>
                /\ call'[c].swept = IF Len(cache) >= config.cache.maxCachedEntries
                                    THEN Len(cache) \div 4 ELSE 0
                /\ \A e \in call'[c].evicted, i \in Kept(call'[c].key) :
                       cache[i].timestamp >= e.timestamp]_vars

\* the sweep before an insertion has removed an entry that had not expired
\* while an expired entry with a larger timestamp is still in the store
C29_Witness ==
    \E c \in Slots :
        /\ Done(c)
        /\ call[c].saved
        /\ \E e \in call[c].evicted, i \in DOMAIN cache :
              /\ ~Expired(e)
              /\ Expired(cache[i])
              /\ cache[i].timestamp > e.timestamp

----------------------------------------------------------------------------
(* Bodies: post, put and patch calls with every wrapper: absent, or any     *)
(* type, missing and unknown ones included, with any data                  *)

AllWrappers ==
    {NoWrapper}
    \cup {Wrapper(type, data) :
            type \in ContentTypes \cup {"undefined", "bogus"}, data \in DataKinds}

PrepareConfigs == {Config("empty", 0, 1, "undefined", FALSE, 2, 0)}

PrepareEnv ==
    Environment({"/a"}, AllWrappers, {NoOptions},
                {Response(TRUE, "200", FALSE, TRUE, "{id:1}")}, {})

InitPrepare == InitOn(PrepareConfigs, {1})
NextPrepare ==
    \/ post(PrepareEnv)
    \/ put(PrepareEnv)
    \/ patch(PrepareEnv)
    \/ FetchResolves(PrepareEnv)
    \/ BodySettles
    \/ Collect
SpecPrepare == InitPrepare /\ [][NextPrepare]_vars

\* the cases in which prepareBody is to fail
Unpreparable(body) ==
    \/ ~body.present
    \/ body.type = "undefined"
    \/ body.data = "undefined"
    \/ body.type = "json" /\ body.data = "null"
    \/ body.type = "multipart" /\ body.data # "FormData"
    \/ body.type = "blob" /\ body.data # "Blob" /\ JSONstringify(body.data) = <<>>
    \/ body.type \notin ContentTypes

\* C30 as stated: for the wrapper of every post, put and patch, prepareBody
\* fails exactly in the listed cases and then with a TFetchError; otherwise
\* it returns a wrapper of the same type, with a FormData for form data
\* that is an object, a string for text data and a Blob for blob data.
C30_PrepareBodyFailures ==
    \A c \in Slots :
        call[c].pc # "idle" =>
            LET body == call[c].wrapper
                prepared == prepareBody(body)
            IN  /\ (prepared.throws # <<>>) <=> Unpreparable(body)
                /\ prepared.throws # <<>> =>
                       prepared.throws[1].name = "TFetchError"
                /\ prepared.throws = <<>> =>
                       /\ prepared.ret.type = body.type
                       /\ (body.type = "form" /\ body.data \in {"object", "circular", "Blob"}) =>
                              prepared.ret.data = FormDataOf(body.data)
                       /\ body.type = "text" =>
                              prepared.ret.data = String(body.data)
                       /\ body.type = "blob" => prepared.ret.data = "Blob"

\* C31: for the wrapper of every post, put and patch, serializeBody returns
\* no body, which is not the empty string, when the data is null or
\* undefined, whatever the type; otherwise it returns the JSON encoding for
\* json, or fails with a TFetchError when there is none, the string
\* coercion for text, and the data itself for form, multipart and blob, and
\* it fails with a TFetchError for every other type; and what a call gives
\* to fetch is what serializeBody returns for the prepared wrapper.
C31_SerializeBody ==
    \A c \in Slots :
        call[c].pc # "idle" =>
            LET body == call[c].wrapper
                serialized == serializeBody(body)
                failed == /\ serialized.throws # <<>>
                          /\ serialized.throws[1].name = "TFetchError"
            IN  /\ body.data \in {"null", "undefined"} =>
                       /\ serialized.throws = <<>>
                       /\ serialized.ret = NoBody
                       /\ serialized.ret # Serialized("string", <<>>, "")
                /\ body.data \notin {"null", "undefined"} =>
                       /\ body.type = "json" =>
                              IF JSONstringify(body.data) = <<>> THEN failed
                              ELSE /\ serialized.throws = <<>>
                                   /\ serialized.ret.kind = "string"
                                   /\ serialized.ret.str = JSONstringify(body.data)[1]
                       /\ body.type = "text" =>
                              /\ serialized.throws = <<>>
                              /\ serialized.ret.kind = "string"
                              /\ serialized.ret.str = StringOf(body.data)
                       /\ body.type \in {"form", "multipart", "blob"} =>
                              /\ serialized.throws = <<>>
                              /\ serialized.ret = AsValue(body.data)
                       /\ body.type \notin {"json", "text", "form", "multipart", "blob"} =>
                              failed
                /\ call[c].fetches >= 1 =>
                       /\ prepareBody(body).throws = <<>>
                       /\ serializeBody(prepareBody(body).ret).throws = <<>>
                       /\ call[c].body = serializeBody(prepareBody(body).ret).ret

\* a post whose data is the empty string of type text gives fetch the empty
\* string, which is not the absence of a body
C31_Witness ==
    \E c \in Slots :
        /\ call[c].pc = "fetching"
        /\ call[c].wrapper = Wrapper("text", "emptyString")
        /\ call[c].body = Serialized("string", <<>>, "")
        /\ call[c].body # serializeBody(Wrapper("text", "null")).ret

----------------------------------------------------------------------------
(* Instances: two clients with caching enabled, each with two callers.  The *)
(* variables config, cache and call are those of the instance whose code   *)
(* runs (this); other holds the second instance meanwhile.                 *)

\* an instance: its config, its cache and the calls made on it
Instance(cfg, store, calls) == [config |-> cfg, cache |-> store, call |-> calls]

\* a store that a new instance shares with the existing one
SharedMap(existing) == existing

\* this.cache = new Map()
NewMap(existing) == <<>>

InstanceConfigs ==
    {Config("empty", 0, 1, "undefined", TRUE, maxAge, 5000) : maxAge \in {1, 2}}

InstanceEnv ==
    Environment({"/a"}, {}, {NoOptions},
                {Response(TRUE, "200", FALSE, TRUE, "{id:1}"),
                 Response(TRUE, "200", FALSE, TRUE, "{id:2}")},
                {})

\* new TFetchClient(opts), for the second instance
Construct ==
    /\ other = <<>>
    /\ \E cfg \in InstanceConfigs :
          other' = <<Instance(cfg, NewMap(cache), [c \in DOMAIN call |-> Idle])>>
    /\ UNCHANGED <<config, cache, now, call>>

\* the code that runs next is code of the other instance
Switch ==
    /\ other # <<>>
    /\ other' = <<Instance(config, cache, call)>>
    /\ config' = other[1].config
    /\ cache' = other[1].cache
    /\ call' = other[1].call
    /\ UNCHANGED now

InitInstances == InitOn(InstanceConfigs, {1, 2})
NextInstances ==
    \/ get(InstanceEnv)
    \/ FetchResolves(InstanceEnv)
    \/ BodySettles
    \/ Tick
    \/ Construct
    \/ Switch
SpecInstances == InitInstances /\ [][NextInstances]_vars

\* C32: a call is answered from the store only with data that a call of
\* the same instance has stored under the same key; a new instance starts
\* with an empty store; the instance that is not running changes only when
\* it is constructed or when the two instances change places, each keeping
\* its own store; and a step that changes the running store leaves the
\* other instance as it is.
C32_OwnStore ==
    [][/\ \A c \in Slots :
            (other' = other /\ Starts(c) /\ call'[c].hit) =>
                \E c2 \in Slots :
                    /\ c2 # c
                    /\ Done(c2)
                    /\ call[c2].saved
                    /\ call[c2].key = call'[c].key
                    /\ call[c2].result.data = call'[c].result.data
       /\ other' # other =>
              \/ /\ other = <<>>
                 /\ other'[1].cache = <<>>
                 /\ UNCHANGED <<config, cache, call>>
              \/ /\ other # <<>>
                 /\ other'[1].cache = cache
                 /\ cache' = other[1].cache
                 /\ call' = other[1].call
       /\ cache' # cache =>
              \/ other' = other
              \/ other # <<>> /\ cache' = other[1].cache]_vars

\* both instances hold a live entry under the same key with different data,
\* and the call of the running instance made its own transport call
C32_Witness ==
    /\ other # <<>>
    /\ \E c \in Slots, i \in DOMAIN other[1].cache :
          /\ Done(c)
          /\ call[c].saved
          /\ call[c].fetches = 1
          /\ other[1].cache[i].key = call[c].key
          /\ other[1].cache[i].data # call[c].result.data
          /\ other[1].cache[i].timestamp < MapGet(cache, call[c].key)[1].timestamp
          /\ now <= other[1].cache[i].expiresAt

----------------------------------------------------------------------------
(* Overrides: every public method, called with per-call headers and cache   *)
(* options, on clients with headers of their own, with and without caching *)
(* and retries; two callers, one call each.                                *)

OverrideConfigs ==
    {WithHeaders(Config("empty", count, 0, "returns", enabled, 2, 5000),
                 << <<"Authorization", "Bearer A">> >>) :
        count \in {1}, enabled \in BOOLEAN}

OverrideOptions ==
    {NoOptions,
     Options(<< <<"X-Custom-Header", "test">> >>, <<>>, <<>>),
     Options(<< <<"X-Custom-Header", "test">> >>, <<TRUE>>, <<1>>),
     Options(<<>>, <<FALSE>>, <<>>)}

OverrideEnv ==
    Environment({"/a"}, {Wrapper("json", "object")}, OverrideOptions,
                {Response(TRUE, "200", FALSE, TRUE, "{id:1}"),
                 Response(FALSE, "500", FALSE, TRUE, "Server Error")},
                {PlainError("TypeError", "fetch failed")})

InitOverrides == InitOn(OverrideConfigs, {1, 2})
NextOverrides ==
    \/ get(OverrideEnv)
    \/ post(OverrideEnv)
    \/ put(OverrideEnv)
    \/ patch(OverrideEnv)
    \/ delete(OverrideEnv)
    \/ head(OverrideEnv)
    \/ FetchResolves(OverrideEnv)
    \/ FetchRejects(OverrideEnv)
    \/ BodySettles
    \/ RetryTimer
SpecOverrides == InitOverrides /\ [][NextOverrides]_vars

\* C33: no step changes the configuration: not the start of a call of any
\* method, whatever headers and cache options it is given, nor a response,
\* a failure, a retry, a store lookup or an insertion.
C33_ConfigImmutable == [][config' = config]_vars

\* a call given a header and cache options that differ from the client's
\* has retried and has stored its data
C33_Witness ==
    \E c \in Slots :
        /\ Done(c)
        /\ call[c].opts.enabled # <<>>
        /\ call[c].cacheEnabled # config.cache.enabled
        /\ call[c].cacheMaxAge # config.cache.maxAge
        /\ <<"x-custom-header", "test">> \in call[c].headers
        /\ call[c].onRetryCalls = 1
        /\ call[c].saved

----------------------------------------------------------------------------
\* C34: the step in which a call is answered from the store leaves the
\* store as it was, entry by entry and in the same order: the entry read
\* keeps its data, timestamp and expiresAt, no entry is added or removed,
\* and the call neither sweeps nor inserts.
C34_HitLeavesStore ==
    [][\A c \in Slots :
          (Starts(c) /\ call'[c].hit) =>
              /\ cache' = cache
              /\ MapGet(cache', call'[c].key) = MapGet(cache, call'[c].key)
              /\ call'[c].result.data = MapGet(cache, call'[c].key)[1].data
              /\ call'[c].swept = 0
              /\ ~call'[c].saved
              /\ ~call'[c].expired]_vars

\* a call has been answered from an entry inserted at an earlier instant,
\* while the store holds another entry as well
C34_Witness ==
    \E c \in Slots :
        /\ Done(c)
        /\ call[c].hit
        /\ Len(cache) = 2
        /\ MapGet(cache, call[c].key) # <<>>
        /\ MapGet(cache, call[c].key)[1].timestamp < now

----------------------------------------------------------------------------
\* the larger of two numbers
Max(a, b) == IF a >= b THEN a ELSE b

\* C35: whatever the limit, the store never holds more entries than the
\* larger of maxCachedEntries and 4, and an insertion into a store that
\* holds at least maxCachedEntries entries and at least 4 does not leave
\* more entries than there were.
C35_SizeBound ==
    /\ [](Len(cache) <= Max(config.cache.maxCachedEntries, 4))
    /\ [][\A c \in Slots :
            (/\ Inserts(c)
             /\ Len(cache) >= config.cache.maxCachedEntries
             /\ Len(cache) >= 4) =>
                Len(cache') <= Len(cache)]_vars

\* with a limit of 2, an insertion into a store of four entries has swept
\* one of them and left four
C35_Witness ==
    \E c \in Slots :
        /\ Done(c)
        /\ call[c].saved
        /\ call[c].swept = 1
        /\ config.cache.maxCachedEntries = 2
        /\ Len(cache) = 4

----------------------------------------------------------------------------
(* Re-caching: two callers whose GET calls to the same URL overlap, so that *)
(* the second one to finish inserts under a key the store already holds,   *)
(* with a limit that makes every insertion sweep, and a moving clock.      *)

RecacheUrls == {"/1", "/2", "/3", "/4"}

RecacheConfigs ==
    {Config("empty", 0, 1, "undefined", TRUE, 5, maxCachedEntries) :
        maxCachedEntries \in {0}}

RecacheEnv ==
    Environment(RecacheUrls, {}, {NoOptions},
                {Response(TRUE, "200", FALSE, TRUE, "{id:1}")},
                {})

InitRecache == InitOn(RecacheConfigs, {1, 2})
NextRecache ==
    \/ get(RecacheEnv)
    \/ FetchResolves(RecacheEnv)
    \/ BodySettles
    \/ Collect
    \/ Tick
SpecRecache == InitRecache /\ [][NextRecache]_vars

\* the entries of the store m under key
EntriesOf(m, key) == {i \in DOMAIN m : m[i].key = key}

\* C36: an insertion under a key the store already holds leaves no more
\* entries than there were, and leaves exactly one entry under the key, with
\* the data of the inserting call, the instant of the insertion as
\* timestamp, and that instant + the call's maxAge as expiresAt. The sweep
\* comes first: when the store held at least maxCachedEntries entries the
\* insertion has removed floor(size * 0.25) of them, those with the
\* smallest timestamps, whatever their keys; otherwise it has removed none.
C36_Recache ==
    [][\A c \in Slots :
          (Inserts(c) /\ call'[c].key \in Keys(cache)) =>
              LET k == call'[c]
                  under == EntriesOf(cache', k.key)
              IN  /\ Len(cache') <= Len(cache)
                  /\ Cardinality(under) = 1
                  /\ \A i \in under :
                        /\ cache'[i].data = k.result.data
                        /\ cache'[i].timestamp = now
                        /\ cache'[i].expiresAt = now + k.cacheMaxAge
                  /\ k.swept = IF Len(cache) >= config.cache.maxCachedEntries
                               THEN Len(cache) \div 4 ELSE 0
                  /\ Cardinality(k.evicted) = k.swept
                  /\ \A e \in k.evicted, i \in DOMAIN cache :
                        cache[i] \notin k.evicted =>
                            e.timestamp <= cache[i].timestamp
                  /\ \A i \in DOMAIN cache :
                        (cache[i].key # k.key /\ cache[i] \notin k.evicted) =>
                            \E j \in DOMAIN cache' : cache'[j] = cache[i]]_vars

\* an insertion under a key the store held has replaced the entry's data at
\* a later instant, and its sweep has removed an entry under another key
C36_Witness ==
    \E c \in Slots :
        /\ Done(c)
        /\ call[c].saved
        /\ call[c].swept = 1
        /\ \A e \in call[c].evicted :
              /\ e.key # call[c].key
              /\ e.key \notin Keys(cache)
        /\ Len(cache) = 3
        /\ \A c2 \in Slots \ {c} : call[c2].pc = "idle"
        /\ MapGet(cache, call[c].key)[1].timestamp = now
        /\ \E i \in DOMAIN cache : cache[i].timestamp < now

----------------------------------------------------------------------------
\* C37: a call with caching enabled is answered from the store exactly when
\* the store holds an entry under its key whose expiresAt has not passed,
\* whatever maxAge the call itself was given; an entry is inserted with
\* expiresAt = the instant of insertion + the inserting call's maxAge (the
\* per-call value if given, else the client's); and as long as an entry
\* stays in the store its expiresAt stays as inserted.
C37_ExpiryFixedAtInsertion ==
    [][\A c \in Slots :
         /\ (Starts(c) /\ ResolvedEnabled(call'[c])) =>
                (call'[c].hit <=>
                    /\ MapGet(cache, call'[c].key) # <<>>
                    /\ now <= MapGet(cache, call'[c].key)[1].expiresAt)
         /\ Inserts(c) =>
                /\ MapGet(cache', call'[c].key)[1].timestamp = now
                /\ MapGet(cache', call'[c].key)[1].expiresAt =
                       now + ResolvedMaxAge(call'[c])
         /\ \A i \in DOMAIN cache :
                (~Inserts(c) /\ MapGet(cache', cache[i].key) # <<>>) =>
                    MapGet(cache', cache[i].key) = <<cache[i]>>]_vars

\* two entries inserted at the same instant expire at different instants,
\* and a call whose own maxAge has passed since the insertion has been
\* answered from the one that has not expired
C37_Witness ==
    \E c \in Slots, i, j \in DOMAIN cache :
        /\ cache[i].timestamp = cache[j].timestamp
        /\ cache[i].expiresAt < cache[j].expiresAt
        /\ Done(c)
        /\ call[c].hit
        /\ call[c].key = cache[j].key
        /\ call[c].opts.maxAge = <<1>>
        /\ now > cache[j].timestamp + 1

----------------------------------------------------------------------------
(* Concurrency: two callers whose GET calls to four URLs overlap, on a      *)
(* client with a limit of 0, so that every insertion into a store of four  *)
(* entries evicts one; the responses differ.                               *)

ConcurrentEnv ==
    Environment(RecacheUrls, {}, {NoOptions},
                {Response(TRUE, "200", FALSE, TRUE, "{id:1}"),
                 Response(TRUE, "200", FALSE, TRUE, "{id:2}")},
                {})

InitConcurrent == InitOn(RecacheConfigs, {1, 2})
NextConcurrent ==
    \/ get(ConcurrentEnv)
    \/ FetchResolves(ConcurrentEnv)
    \/ BodySettles
    \/ Collect
SpecConcurrent == InitConcurrent /\ [][NextConcurrent]_vars

\* C38: a call that was not answered from the store has made one transport
\* call and returns the data of the response to that call; a call whose key
\* the store does not hold makes its own transport call; a call answered
\* from the store returns the data stored under its own key; and a step of
\* one call, an insertion that evicts included, leaves every other call as
\* it is.
C38_EvictionKeepsResults ==
    /\ [](\A c \in Slots :
            (Done(c) /\ ~call[c].hit) =>
                /\ call[c].fetches = 1
                /\ call[c].res # <<>>
                /\ call[c].result.error = <<>>
                /\ <<call[c].result.data>> = JSONparse(call[c].res[1].text))
    /\ [][\A c \in Slots :
            /\ (Starts(c) /\ call'[c].key \notin Keys(cache)) =>
                   (~call'[c].hit /\ call'[c].fetches = 1)
            /\ (Starts(c) /\ call'[c].hit) =>
                   \E i \in DOMAIN cache :
                       /\ cache[i].key = call'[c].key
                       /\ cache[i].data = call'[c].result.data
            /\ \A c2 \in Slots \ {c} :
                   call'[c] # call[c] => call'[c2] = call[c2]]_vars

\* while a call is in flight, an insertion by the other caller has evicted
\* the entry under the call's key, which held other data than the response
\* the call has received
C38_Witness ==
    \E c, c2 \in Slots :
        /\ Done(c)
        /\ call[c].saved
        /\ call[c2].pc \notin {"idle", "done", "rejected"}
        /\ call[c2].res # <<>>
        /\ call[c2].key # call[c].key
        /\ \E e \in call[c].evicted :
              /\ e.key = call[c2].key
              /\ <<e.data>> # JSONparse(call[c2].res[1].text)

----------------------------------------------------------------------------
(* The retry budget: GET calls on clients whose retry count is negative,   *)
(* zero or positive, with failures and error texts that repeat the message *)
(* of the return after the loop                                            *)

BudgetConfigs ==
    {Config("empty", count, 0, "returns", FALSE, 2, 0) :
        count \in (0 - 2)..MaxRetryCount}

BudgetEnv ==
    Environment({"/a"}, {}, {NoOptions},
                {Response(TRUE, "200", FALSE, TRUE, "{id:1}"),
                 Response(TRUE, "200", FALSE, TRUE, "<html>"),
                 Response(FALSE, "404", FALSE, TRUE, "Not Found"),
                 Response(FALSE, "500", FALSE, TRUE, "Max retries exceeded"),
                 Response(FALSE, "500", FALSE, FALSE, "")},
                {PlainError("TypeError", "fetch failed"),
                 PlainError("Error", "Max retries exceeded")})

InitBudget == InitOn(BudgetConfigs, {1})
NextBudget ==
    \/ get(BudgetEnv)
    \/ FetchResolves(BudgetEnv)
    \/ FetchRejects(BudgetEnv)
    \/ BodySettles
    \/ RetryTimer
    \/ Collect
SpecBudget == InitBudget /\ [][NextBudget]_vars

\* the Result of the return after the loop
MaxRetriesExceeded == Result(Null, <<TFetchError("Max retries exceeded", Undefined)>>)

\* the step ends the call in slot c at the head of the loop: the loop
\* condition is false and the return after the loop is taken
ReturnsAfterLoop(c) ==
    /\ Completes(c)
    /\ call[c].pc \in {"idle", "retryDelay"}
    /\ ~call'[c].hit

\* C39: the return after the loop is taken only by a client whose retry
\* count is negative, only at the first test of the loop condition, with no
\* transport call made, and it returns the error "Max retries exceeded";
\* such a client takes it in every call. With a retry count of 0 or more,
\* every error a call returns has been produced inside the loop, after at
\* least one transport call: from a response that was not ok, with its text
\* and status, or from the last failure when the budget was exhausted.
C39_PostLoopReturn ==
    /\ [][\A c \in Slots :
            /\ ReturnsAfterLoop(c) =>
                   /\ config.retry.count < 0
                   /\ call[c].pc = "idle"
                   /\ call'[c].fetches = 0
                   /\ call'[c].attempts = 0
                   /\ call'[c].result = MaxRetriesExceeded
            /\ (Starts(c) /\ config.retry.count < 0) => ReturnsAfterLoop(c)]_vars
    /\ [](\A c \in Slots :
            (/\ Done(c)
             /\ config.retry.count >= 0
             /\ call[c].result.error # <<>>) =>
                /\ call[c].fetches >= 1
                /\ \/ /\ call[c].res # <<>>
                      /\ ~call[c].res[1].ok
                      /\ call[c].res[1].readable
                      /\ call[c].result.error =
                             <<TFetchError(call[c].res[1].text, call[c].res[1].status)>>
                   \/ /\ call[c].lastError # <<>>
                      /\ call[c].attempts = config.retry.count + 1
                      /\ call[c].result.error = <<TerminalError(call[c].lastError[1])>>)

\* a client with a retry count of -1 has returned "Max retries exceeded"
\* without a transport call
C39_Witness ==
    \E c \in Slots :
        /\ config.retry.count = 0 - 1
        /\ Done(c)
        /\ call[c].fetches = 0
        /\ call[c].result = MaxRetriesExceeded

----------------------------------------------------------------------------
(* hashCode on its own: one caller runs the loop of hashCode, a round at a  *)
(* time, on a string of UTF-16 code units.  The strings are all those of   *)
(* up to MaxHashLen units out of HashUnits, the strings the bodies of the  *)
(* model turn into, and one whose hash is 2^31 before Math.abs.            *)

MaxHashLen == 5

HashUnits == {0, 97, 65535}

RECURSIVE StringsUpTo(_)
StringsUpTo(n) ==
    IF n = 0 THEN {<<>>}
    ELSE StringsUpTo(n - 1)
         \cup {Append(str, u) : str \in {t \in StringsUpTo(n - 1) : Len(t) = n - 1},
                                u \in HashUnits}

HashStrings ==
    StringsUpTo(MaxHashLen)
    \cup {StringOf(kind) : kind \in DataKinds}
    \cup {<<2325, 9, 30, 12, 2>>}

\* hashCode(str) about to test i < str.length
HashFrame(str) == [pc |-> "loop", str |-> str, i |-> 0, hash |-> Int32(0, 0), ret |-> ""]

InitHash ==
    /\ config = Config("empty", 0, 1, "undefined", FALSE, 2, 0)
    /\ cache = <<>>
    /\ now = 1
    /\ call \in {<<HashFrame(str)>> : str \in HashStrings}
    /\ other = <<>>

\* one round of the loop: hash = (hash << 5) - hash + char; hash = hash & hash
HashRound ==
    \E c \in DOMAIN call :
        /\ call[c].pc = "loop"
        /\ call[c].i < Len(call[c].str)
        /\ call' = [call EXCEPT ![c].hash = HashStep(@, call[c].str[call[c].i + 1]),
                                ![c].i = @ + 1]
        /\ UNCHANGED <<config, cache, now, other>>

\* return Math.abs(hash)
HashReturn ==
    \E c \in DOMAIN call :
        /\ call[c].pc = "loop"
        /\ call[c].i = Len(call[c].str)
        /\ call' = [call EXCEPT ![c].pc = "done",
                                ![c].ret = Decimal(Abs32(call[c].hash))]
        /\ UNCHANGED <<config, cache, now, other>>

NextHash ==
    \/ HashRound
    \/ HashReturn
SpecHash == InitHash /\ [][NextHash]_vars

\* the least signed 32-bit integer, -2^31
MinInt32 == (0 - 2147483647) - 1

\* a + b wrapped around to a signed 32-bit integer, for signed 32-bit a, b
WrapAdd(a, b) ==
    IF a >= 0 /\ b >= 0 /\ a > 2147483647 - b
    THEN (a + MinInt32) + (b + MinInt32)
    ELSE IF a < 0 /\ b < 0 /\ a < MinInt32 - b
    THEN (a - MinInt32) + (b - MinInt32)
    ELSE a + b

\* 31 * h wrapped around to a signed 32-bit integer: h + 2h + 4h + 8h + 16h
WrapTimes31(h) ==
    LET h2 == WrapAdd(h, h)
        h4 == WrapAdd(h2, h2)
        h8 == WrapAdd(h4, h4)
        h16 == WrapAdd(h8, h8)
    IN  WrapAdd(WrapAdd(WrapAdd(WrapAdd(h, h2), h4), h8), h16)

\* h = 31 * h + charCode, wrapped around to a signed 32-bit integer
Polynomial(h, charCode) == WrapAdd(WrapTimes31(h), charCode)

\* the decimal text of the absolute value of a signed 32-bit integer
AbsText(h) ==
    IF h = MinInt32 THEN "2147483648"
    ELSE IF h < 0 THEN ToString(0 - h)
    ELSE ToString(h)

\* the signed integer whose two's complement the halves are
Signed(h) ==
    IF h.hi < 32768 THEN h.hi * 65536 + h.lo
    ELSE (h.hi - 65536) * 65536 + h.lo

\* C40: hash starts from 0, and every round of the loop takes it from h to
\* the signed 32-bit wrap-around of 31 * h + charCode, for each unit of the
\* string in turn; what hashCode returns is the absolute value of the hash
\* after the last unit, an integer from 0 to 2^31, both included; it is 0
\* for the empty string; and it is what hashCode gives for that string
\* whenever applied.
C40_HashCode ==
    /\ [](\A c \in DOMAIN call :
            LET k == call[c]
            IN  /\ k.i = 0 => Signed(k.hash) = 0
                /\ k.pc = "done" =>
                      /\ k.i = Len(k.str)
                      /\ k.ret = AbsText(Signed(k.hash))
                      /\ k.ret = hashCode(k.str)
                      /\ Abs32(k.hash).hi <= 32768
                      /\ Abs32(k.hash).hi = 32768 => Abs32(k.hash).lo = 0
                      /\ k.str = <<>> => k.ret = "0")
    /\ [][\A c \in DOMAIN call :
            /\ call'[c].i # call[c].i =>
                  /\ call'[c].i = call[c].i + 1
                  /\ Signed(call'[c].hash) =
                         Polynomial(Signed(call[c].hash), call[c].str[call'[c].i])
            /\ call'[c].i = call[c].i => call'[c].hash = call[c].hash]_vars

\* hashCode has returned 2^31: the hash had wrapped around to -2^31
C40_Witness ==
    \E c \in DOMAIN call :
        /\ call[c].pc = "done"
        /\ Len(call[c].str) = 5
        /\ Signed(call[c].hash) = MinInt32
        /\ call[c].ret = "2147483648"

====
